---- MODULE Spec2Model ----
(***************************************************************************)
(* Model of the Synthea x AEOLUS x DDI pipeline                            *)
(* (src/src/data-pipelines/pipeline.py).                                   *)
(*                                                                         *)
(* Text is a sequence of one-character strings, so that the regular        *)
(* expressions of normalize_name and clean_synthea_drug act on characters. *)
(* A missing text cell (None / NaN) is NoText, a missing time (NaT) is NaT.*)
(* A data frame is a sequence of records; where the column list matters it *)
(* is kept next to the rows.                                               *)
(***************************************************************************)
EXTENDS Integers, Sequences, FiniteSets, TLC

VARIABLES
    pc,            \* position of the run that the specification describes
    err,           \* exception that ended the last call, or "none"
    ddinter,       \* DDInter rows (ddinter_downloads_code_*.csv, concatenated)
    cresc_pos,     \* CRESCENDDI positive controls rows
    mendeley,      \* Mendeley.csv rows
    ddi_ref,       \* build_ddi_reference: the aggregated frame ddi_ref
    topk,          \* the Top-K frame [cols, rows]
    enriched,      \* the enriched frame (rows), sorted as line 260 leaves it
    ddi_ref_unified, \* the reference frame handed to build_patient_ddi_collapsed
    collapsed,     \* the frame build_patient_ddi_collapsed returns
    cache_file,    \* OUT/rxcui_to_ingredient_map.csv: its rows, or that it is absent
    run,           \* the current call of map_product_to_ingredient and its effects
    inp,           \* the frames handed to build_patient_ae_tables
    risk_ann,      \* the risk annotation frame (rows)
    files,         \* the other files under OUT: for each, whether it exists and its frame
    loaded,        \* the loader: for each of those files, the number of rows it read last
    raw,           \* RAW: the AEOLUS concept and statistics frames, the DDI source
                   \* files that are there and their frames
    aeolus_lookup, \* the frame build_aeolus_lookup returns
    named          \* a drug name and what successive calls of normalize_name made of it

vars == <<pc, err, ddinter, cresc_pos, mendeley, ddi_ref, topk, enriched,
          ddi_ref_unified, collapsed, cache_file, run, inp, risk_ann, files,
          loaded, raw, aeolus_lookup, named>>

NoText == <<"<NaN>">>     \* a missing text cell: None, NaN
NaT == 0 - 1              \* a missing time
NoId == 0 - 1             \* a missing identifier (pd.NA, None, NaN)

(***************************************************************************)
(* Bounds of the model.                                                    *)
(***************************************************************************)
MaxSrcRows == 3      \* rows of the three DDI sources together
MaxExposures == 3    \* rows of a Top-K frame handed to the co-exposure stage
MaxEnriched == 6     \* rows of an enriched frame
MaxRuns == 3         \* calls of map_product_to_ingredient in a row
MaxMeds == 2         \* rows of medications.csv
MaxStats == 2        \* rows of the outcome statistics
MaxLen == 4          \* characters of a drug name
MaxCalls == 2        \* calls of normalize_name on one name, each on the result of the last

(***************************************************************************)
(* Program constants.                                                      *)
(***************************************************************************)
TOP_K == 5
N_SOURCES == 3

(***************************************************************************)
(* Characters and text.                                                    *)
(***************************************************************************)
Ord(c) ==
    CASE c = " " -> 32 [] c = "+" -> 43 [] c = "-" -> 45 [] c = "." -> 46
      [] c = "1" -> 49 [] c = "2" -> 50
      [] c = "A" -> 65 [] c = "B" -> 66 [] c = "X" -> 88 [] c = "Y" -> 89
      [] c = "[" -> 91 [] c = "]" -> 93
      [] c = "a" -> 97 [] c = "b" -> 98 [] c = "n" -> 110
      [] c = "x" -> 120 [] c = "y" -> 121

IsDigit(c) == c \in {"1", "2"}
IsSpace(c) == c = " "

\* Python's order on str: by code point, a proper prefix first.
RECURSIVE StrLess(_, _)
StrLess(s, t) ==
    IF t = <<>> THEN FALSE
    ELSE IF s = <<>> THEN TRUE
    ELSE IF Ord(Head(s)) # Ord(Head(t)) THEN Ord(Head(s)) < Ord(Head(t))
    ELSE StrLess(Tail(s), Tail(t))

\* s.lower()
LowerStr(s) ==
    [i \in 1..Len(s) |->
        CASE s[i] = "A" -> "a" [] s[i] = "B" -> "b" [] s[i] = "X" -> "x" [] s[i] = "Y" -> "y"
          [] s[i] = "U" -> "u" [] s[i] = "M" -> "m"
          [] OTHER -> s[i]]

\* index of the first "]" at or after position i, 0 when there is none
RECURSIVE FirstClose(_, _)
FirstClose(s, i) ==
    IF i > Len(s) THEN 0
    ELSE IF s[i] = "]" THEN i
    ELSE FirstClose(s, i + 1)

\* re.sub(r"\[.*?\]", "", s): leftmost, shortest matches, scanned from i
RECURSIVE StripBrackets(_, _)
StripBrackets(s, i) ==
    IF i > Len(s) THEN <<>>
    ELSE IF s[i] = "[" /\ FirstClose(s, i + 1) # 0
         THEN StripBrackets(s, FirstClose(s, i + 1) + 1)
         ELSE <<s[i]>> \o StripBrackets(s, i + 1)

\* re.sub(r"[^a-z0-9\s\-\+]", " ", s)
BlankOthers(s) ==
    [i \in 1..Len(s) |->
        IF s[i] \in {"a", "b", "n", "x", "y", "1", "2", " ", "-", "+"} THEN s[i] ELSE " "]

\* re.sub(r"\s+", " ", s)
RECURSIVE CollapseSpaces(_)
CollapseSpaces(s) ==
    IF s = <<>> THEN <<>>
    ELSE IF IsSpace(Head(s)) /\ Len(s) > 1 /\ IsSpace(s[2])
         THEN CollapseSpaces(Tail(s))
         ELSE <<Head(s)>> \o CollapseSpaces(Tail(s))

\* str.strip()
RECURSIVE LStrip(_)
LStrip(s) == IF s # <<>> /\ IsSpace(Head(s)) THEN LStrip(Tail(s)) ELSE s

RECURSIVE RStrip(_)
RStrip(s) ==
    IF s # <<>> /\ IsSpace(s[Len(s)]) THEN RStrip(SubSeq(s, 1, Len(s) - 1)) ELSE s

LStripOnly(s) == LStrip(s)
Strip(s) == RStrip(LStrip(s))

normalize_name(s) ==
    IF s = NoText THEN <<>>
    ELSE Strip(CollapseSpaces(BlankOthers(StripBrackets(LowerStr(s), 1))))

\* index of the first digit of s, Len(s) + 1 when there is none
RECURSIVE FirstDigit(_, _)
FirstDigit(s, i) ==
    IF i > Len(s) THEN i
    ELSE IF IsDigit(s[i]) THEN i
    ELSE FirstDigit(s, i + 1)

clean_synthea_drug(desc) ==
    IF desc = NoText THEN <<>>
    ELSE CollapseSpaces(Strip(SubSeq(desc, 1, FirstDigit(desc, 1) - 1)))

(***************************************************************************)
(* Sequence helpers.                                                       *)
(***************************************************************************)
Range(s) == {s[i] : i \in 1..Len(s)}

RECURSIVE SelectIdx(_, _)
\* the indices of s, in order, that are in the set keep
SelectIdx(n, keep) ==
    IF n = 0 THEN <<>>
    ELSE IF n \in keep THEN Append(SelectIdx(n - 1, keep), n)
    ELSE SelectIdx(n - 1, keep)

RECURSIVE Concat(_)
Concat(ss) == IF ss = <<>> THEN <<>> ELSE Head(ss) \o Concat(Tail(ss))

\* order-preserving removal of repeated values
RECURSIVE Dedup(_)
Dedup(s) ==
    IF s = <<>> THEN <<>>
    ELSE LET r == Dedup(SubSeq(s, 1, Len(s) - 1))
         IN  IF s[Len(s)] \in Range(r) THEN r ELSE Append(r, s[Len(s)])

(***************************************************************************)
(* Stage 5: the three DDI sources -> the unified reference                 *)
(* (build_ddi_reference).                                                  *)
(***************************************************************************)
Unknown == <<"U", "n", "k", "n", "o", "w", "n">>
Major == <<"M", "a", "j", "o", "r">>
Minor == <<"M", "i", "n", "o", "r">>

\* pd.isna(v)
IsNa(v) == v = NoText

\* str(x).strip() == ""
IsBlank(v) == Strip(v) = <<>>

\* order of the raw join keys: text by code point, NaN after every text
NameLess(a, b) ==
    IF a = NoText THEN FALSE
    ELSE IF b = NoText THEN TRUE
    ELSE StrLess(a, b)

\* the elements of the finite set S of name pairs, ascending
RECURSIVE SortPairs(_)
SortPairs(S) ==
    IF S = {} THEN <<>>
    ELSE LET m == CHOOSE k \in S : \A o \in S \ {k} :
                      \/ NameLess(k[1], o[1])
                      \/ k[1] = o[1] /\ NameLess(k[2], o[2])
         IN  <<m>> \o SortPairs(S \ {m})

RawKey(r) == <<r.drug1_name, r.drug2_name>>

\* the rows of a frame at the given positions
Pick(t, idx) == [i \in 1..Len(idx) |-> t[idx[i]]]

RowsOf(t, k) == Pick(t, SelectIdx(Len(t), {j \in 1..Len(t) : RawKey(t[j]) = k}))

\* left rows x right rows of one key, left-major
MergePart(ls, rs, padL, padR) ==
    IF ls # <<>> /\ rs # <<>>
    THEN Concat([i \in 1..Len(ls) |-> [j \in 1..Len(rs) |-> ls[i] @@ rs[j]]])
    ELSE IF ls # <<>> THEN [i \in 1..Len(ls) |-> ls[i] @@ padR]
    ELSE [i \in 1..Len(rs) |-> rs[i] @@ padL]

MergeOn(keys, L, R, padL, padR) ==
    Concat([i \in 1..Len(keys) |->
              MergePart(RowsOf(L, keys[i]), RowsOf(R, keys[i]), padL, padR)])

\* DataFrame.merge(on=["drug1_name","drug2_name"], how="outer"): the union of
\* the keys in ascending order (NaN keys match each other); a key of one side
\* only keeps its rows with the other side's columns missing.
OuterMerge(L, R, padL, padR) ==
    MergeOn(SortPairs({RawKey(L[i]) : i \in 1..Len(L)} \cup {RawKey(R[i]) : i \in 1..Len(R)}),
            L, R, padL, padR)

PadDDInter == [ddinter_level |-> NoText]
PadCresc == [interaction_type_crescenddi |-> NoText,
             micromedex_sev_level |-> NoText,
             micromedex_evid_level |-> NoText]

\* tuple(sorted([a, b]))
pair_key_swapped(a, b) == <<a, b>>
pair_key(a, b) == IF StrLess(b, a) THEN <<b, a>> ELSE <<a, b>>

\* lines 307-314: merged, with drug1_norm, drug2_norm and pair_key
WithNorms(r, n1, n2) ==
    r @@ [drug1_norm |-> n1, drug2_norm |-> n2, pair_key |-> pair_key(n1, n2)]

Normed(m) ==
    [i \in 1..Len(m) |->
        WithNorms(m[i], normalize_name(m[i].drug1_name),
                  normalize_name(m[i].drug2_name))]

\* uniq_list over a column of text cells
uniq_list(s) ==
    Dedup(Pick(s, SelectIdx(Len(s), {i \in 1..Len(s) : ~IsNa(s[i]) /\ ~IsBlank(s[i])})))

RECURSIVE first_non_null(_)
first_non_null(s) ==
    IF s = <<>> THEN NoText
    ELSE IF ~IsNa(Head(s)) /\ ~IsBlank(Head(s)) THEN Head(s)
    ELSE first_non_null(Tail(s))

\* choose_severity: Micromedex before DDInter, the first value of the list.
\* Both cells are lists; an empty list fails both tests of the loop body.
choose_severity_fallback(row) ==
    LET mm == row.micromedex_sev_level
        dd == row.ddinter_level
    IN  IF mm # <<>> /\ LowerStr(mm[1]) # LowerStr(Unknown) THEN mm[1]
        ELSE IF dd # <<>> /\ LowerStr(dd[1]) # LowerStr(Unknown) THEN dd[1]
        ELSE NoText
choose_severity(row) ==
    LET mm == row.micromedex_sev_level
        dd == row.ddinter_level
    IN  IF mm # <<>>
        THEN (IF LowerStr(mm[1]) = LowerStr(Unknown) THEN NoText ELSE mm[1])
        ELSE IF dd # <<>>
        THEN (IF LowerStr(dd[1]) = LowerStr(Unknown) THEN NoText ELSE dd[1])
        ELSE NoText

\* the elements of the finite set S of texts, ascending
RECURSIVE SortTexts(_)
SortTexts(S) ==
    IF S = {} THEN <<>>
    ELSE LET m == CHOOSE k \in S : \A o \in S \ {k} : StrLess(k, o)
         IN  <<m>> \o SortTexts(S \ {m})

\* choose_mechanism: the sorted distinct texts that ", ".join puts in a row
choose_mechanism(row) ==
    IF row.interaction_type_mendeley # <<>>
    THEN SortTexts(Range(row.interaction_type_mendeley))
    ELSE NoText

has_micromedex_any(g) ==
    \/ g.micromedex_sev_level # <<>>
    \/ g.micromedex_evid_level # <<>>
    \/ ~IsNa(g.interaction_type_crescenddi)
has_micromedex(g) == g.micromedex_sev_level # <<>>

sources_present(g) ==
    (IF (g.ddinter_level # <<>>) THEN <<"DDInter">> ELSE <<>>)
    \o (IF has_micromedex(g) THEN <<"Micromedex">> ELSE <<>>)
    \o (IF (g.interaction_type_mendeley # <<>>) THEN <<"Mendeley">> ELSE <<>>)

\* src_count / 3.0, kept as a fraction
ddi_confidence_of_present(n) == [num |-> n, den |-> IF n = 0 THEN 1 ELSE n]
ddi_confidence(n) == [num |-> n, den |-> N_SOURCES]

Column(rows, c) == [i \in 1..Len(rows) |-> rows[i][c]]

\* groupby("pair_key").agg({...}) for the rows of one key (lines 334-343)
AggGroup(key, rows) ==
    [pair_key |-> key,
     ddinter_level |-> uniq_list(Column(rows, "ddinter_level")),
     micromedex_sev_level |-> uniq_list(Column(rows, "micromedex_sev_level")),
     micromedex_evid_level |-> uniq_list(Column(rows, "micromedex_evid_level")),
     interaction_type_crescenddi |->
         first_non_null(Column(rows, "interaction_type_crescenddi")),
     interaction_type_mendeley |-> uniq_list(Column(rows, "interaction_type_mendeley")),
     drug1_norm |-> first_non_null(Column(rows, "drug1_norm")),
     drug2_norm |-> first_non_null(Column(rows, "drug2_norm"))]

\* lines 345-375: coverage, confidence, unified severity and mechanism
Annotate(g) ==
    g @@ [sources_present |-> sources_present(g),
          src_count |-> Len(sources_present(g)),
          ddi_confidence |-> ddi_confidence(Len(sources_present(g))),
          unified_severity |-> choose_severity(g),
          unified_mechanism_text |-> choose_mechanism(g)]

Grouped(m, keys) ==
    [i \in 1..Len(keys) |->
        Annotate(AggGroup(keys[i],
                          Pick(m, SelectIdx(Len(m), {j \in 1..Len(m) : m[j].pair_key = keys[i]}))))]

\* groupby("pair_key"): the keys ascending, the rows of a key in frame order
UnifiedOf(m) == Grouped(m, SortPairs({m[i].pair_key : i \in 1..Len(m)}))

\* the frame ddi_ref of build_ddi_reference: one row per pair_key
BuildDdiRef(dd, cr, me) ==
    UnifiedOf(Normed(OuterMerge(OuterMerge(dd, cr, PadDDInter, PadCresc),
                                me, PadDDInter @@ PadCresc,
                                [interaction_type_mendeley |-> NoText])))

\* lines 377-381: the columns of the returned frame
Simplified(ref) ==
    [i \in 1..Len(ref) |->
        [pair_key |-> ref[i].pair_key,
         drug1_norm |-> ref[i].drug1_norm,
         drug2_norm |-> ref[i].drug2_norm,
         unified_severity |-> ref[i].unified_severity,
         unified_mechanism_text |-> ref[i].unified_mechanism_text,
         sources_present |-> ref[i].sources_present,
         ddi_confidence |-> ref[i].ddi_confidence]]

(* Source rows the model draws from. *)
nA == <<"A">>
nAdot == <<"a", ".">>
nB == <<"b">>
nBrk == <<"[", "x", "]">>
txtEv == <<"x">>
txtM1 == <<"b">>

DDInterRow(a, b, l) == [drug1_name |-> a, drug2_name |-> b, ddinter_level |-> l]
CrescRow(a, b, ev, sev, evid) ==
    [drug1_name |-> a, drug2_name |-> b, interaction_type_crescenddi |-> ev,
     micromedex_sev_level |-> sev, micromedex_evid_level |-> evid]
MendeleyRow(a, b, t) == [drug1_name |-> a, drug2_name |-> b, interaction_type_mendeley |-> t]

DDInterRows ==
    {DDInterRow(nA, nB, Major), DDInterRow(nB, nAdot, Unknown),
     DDInterRow(nA, nB, NoText), DDInterRow(NoText, nB, Minor),
     DDInterRow(nB, nBrk, Major)}
CrescRows ==
    {CrescRow(nA, nB, NoText, Unknown, NoText), CrescRow(nB, nAdot, txtEv, NoText, <<"y">>),
     CrescRow(nA, nB, txtEv, Minor, NoText), CrescRow(nB, NoText, NoText, Major, NoText),
     CrescRow(nBrk, nB, txtEv, NoText, NoText)}
MendeleyRows ==
    {MendeleyRow(nA, nB, txtM1), MendeleyRow(nAdot, nB, <<"a">>),
     MendeleyRow(nB, nA, <<" ">>), MendeleyRow(NoText, nB, txtM1),
     MendeleyRow(nB, nBrk, txtM1)}

\* no call of map_product_to_ingredient yet: nothing returned, no request
\* sent, no file written
NoRun == [n |-> 0, meds |-> <<>>, use_rxnav |-> FALSE,
          answer |-> <<>>, result |-> <<>>,
          requests |-> 0, writes |-> 0]

\* the files the stages write, none of them there yet
OutNames == {"patient_ae_risk_annotations_rxnav", "ae_risk_enriched",
             "ae_risk_topk_per_patient_drug", "patient_ddi_collapsed_from_topk"}
NoFiles == [f \in OutNames |-> [exists |-> FALSE, cols |-> <<>>, rows |-> <<>>]]
\* no name normalised
NoName == [x |-> <<>>, out |-> <<>>]
\* nothing under RAW: no AEOLUS frame, none of the DDI source files
NoRaw == [concept |-> <<>>, stats |-> <<>>, present |-> {},
          ddinter |-> <<>>, cresc_pos |-> <<>>, mendeley |-> <<>>]
\* the loader has not run: it has read no row of any file
NoLoad == [f \in OutNames |-> 0]
NoInput == [meds |-> <<>>, patients |-> <<>>, patient_cols |-> <<>>,
            conds |-> <<>>, cond_cols |-> <<>>,
            aeolus_by_rxcui |-> <<>>, prod_ing_map |-> <<>>]

Idle ==
    /\ inp = NoInput
    /\ risk_ann = <<>>
    /\ files = NoFiles
    /\ loaded = NoLoad
    /\ raw = NoRaw
    /\ aeolus_lookup = <<>>
    /\ named = NoName
    /\ topk = [cols |-> <<>>, rows |-> <<>>]
    /\ enriched = <<>>
    /\ ddi_ref_unified = <<>>
    /\ collapsed = <<>>
    /\ cache_file = [exists |-> FALSE, rows |-> <<>>]
    /\ run = NoRun

InitDDI ==
    /\ pc = "ddi_sources"
    /\ err = "none"
    /\ \E l1 \in 0..MaxSrcRows :
         \E l2 \in 0..(MaxSrcRows - l1) :
           \E l3 \in 0..(MaxSrcRows - l1 - l2) :
             /\ l1 + l2 + l3 >= 1
             /\ ddinter \in [1..l1 -> DDInterRows]
             /\ cresc_pos \in [1..l2 -> CrescRows]
             /\ mendeley \in [1..l3 -> MendeleyRows]
    /\ ddi_ref = <<>>
    /\ Idle

build_ddi_reference ==
    /\ pc = "ddi_sources"
    /\ ddi_ref' = BuildDdiRef(ddinter, cresc_pos, mendeley)
    /\ pc' = "ddi_done"
    /\ UNCHANGED <<named, raw, aeolus_lookup, loaded, err, ddinter, cresc_pos, mendeley, topk,
                   enriched,
                   ddi_ref_unified, collapsed, cache_file, run, inp, risk_ann, files>>

SpecDDI == InitDDI /\ [][build_ddi_reference]_vars

(* Stage 5 from the files: which of the three sources are under RAW.       *)
DDInterFiles == "ddinter_downloads_code_*.csv"
MendeleyFile == "Mendeley.csv"
CrescFile == "CRESCENDDI - Positive Controls.xlsx"
DdiSourceFiles == {DDInterFiles, MendeleyFile, CrescFile}

\* find_one, line 58: the message of the FileNotFoundError, RAW being
\* data/raw_datasets
NotFound(f) ==
    CASE f = MendeleyFile -> "Could not find Mendeley.csv under data/raw_datasets"
      [] f = CrescFile ->
            "Could not find CRESCENDDI - Positive Controls.xlsx under data/raw_datasets"
      [] f = DDInterFiles ->
            "Could not find ddinter_downloads_code_*.csv under data/raw_datasets"

InitSources ==
    /\ pc = "ddi_files"
    /\ err = "none"
    /\ ddinter = <<>> /\ cresc_pos = <<>> /\ mendeley = <<>> /\ ddi_ref = <<>>
    /\ inp = NoInput
    /\ risk_ann = <<>>
    /\ files = NoFiles
    /\ topk = [cols |-> <<>>, rows |-> <<>>]
    /\ enriched = <<>>
    /\ ddi_ref_unified = <<>>
    /\ collapsed = <<>>
    /\ cache_file = [exists |-> FALSE, rows |-> <<>>]
    /\ run = NoRun
    /\ loaded = NoLoad
    /\ aeolus_lookup = <<>>
    /\ named = NoName
    /\ \E present \in SUBSET DdiSourceFiles :
         \E l1 \in 0..MaxSrcRows :
           \E l2 \in 0..(MaxSrcRows - l1) :
             \E l3 \in 0..(MaxSrcRows - l1 - l2) :
               /\ l2 + l3 >= 1
               /\ \E dd \in [1..l1 -> DDInterRows] :
                    \E cr \in [1..l2 -> CrescRows] :
                      \E me \in [1..l3 -> MendeleyRows] :
                         raw = [NoRaw EXCEPT !.present = present, !.ddinter = dd,
                                             !.cresc_pos = cr, !.mendeley = me]

\* lines 284-304: the DDInter chunks are globbed and concatenated, an empty
\* frame where there is none; Mendeley.csv and the CRESCENDDI workbook are
\* looked up with find_one, which raises where the file is not there
read_ddi_sources ==
    /\ pc = "ddi_files"
    /\ IF MendeleyFile \notin raw.present
       THEN /\ err' = NotFound(MendeleyFile)
            /\ pc' = "aborted"
            /\ UNCHANGED <<ddinter, cresc_pos, mendeley>>
       ELSE IF CrescFile \notin raw.present
       THEN /\ err' = NotFound(CrescFile)
            /\ pc' = "aborted"
            /\ UNCHANGED <<ddinter, cresc_pos, mendeley>>
       ELSE /\ ddinter' = IF DDInterFiles \in raw.present THEN raw.ddinter ELSE <<>>
            /\ mendeley' = raw.mendeley
            /\ cresc_pos' = raw.cresc_pos
            /\ err' = "none"
            /\ pc' = "ddi_sources"
    /\ UNCHANGED <<ddi_ref, topk, enriched, ddi_ref_unified, collapsed, cache_file,
                   run, inp, risk_ann, files, loaded, raw, aeolus_lookup, named>>

SpecSources == InitSources /\ [][read_ddi_sources \/ build_ddi_reference]_vars

\* C19: when one of the three DDI source files is not under RAW, the stage
\* ends with the "Could not find ... under ..." error of a missing file, and
\* builds no reference.
C19_MissingSourceIsFatal ==
    (pc # "ddi_files" /\ raw.present # DdiSourceFiles) =>
        /\ pc = "aborted"
        /\ err \in {NotFound(f) : f \in DdiSourceFiles \ raw.present}
        /\ ddi_ref = <<>>

(***************************************************************************)
(* Claims about the unified DDI reference (SpecDDI).                       *)
(***************************************************************************)
NonEmpty(v) == ~IsNa(v) /\ ~IsBlank(v)
SrcKey(r) == pair_key(normalize_name(r.drug1_name), normalize_name(r.drug2_name))
NormNames == {normalize_name(n) : n \in {nA, nAdot, nB, nBrk, NoText}}

\* C2: the unified severity is Micromedex's first value unless that list is
\* empty or the value is "Unknown", else DDInter's first value under the same
\* rule, else missing.
C2_SeverityFallsBackToDDInter ==
    pc = "ddi_done" =>
        \A i \in 1..Len(ddi_ref) :
            ddi_ref[i].unified_severity = choose_severity_fallback(ddi_ref[i])

Contributes(src, key) ==
    CASE src = "DDInter" ->
           \E i \in 1..Len(ddinter) :
               SrcKey(ddinter[i]) = key /\ NonEmpty(ddinter[i].ddinter_level)
      [] src = "Micromedex" ->
           \E i \in 1..Len(cresc_pos) :
               /\ SrcKey(cresc_pos[i]) = key
               /\ \/ NonEmpty(cresc_pos[i].interaction_type_crescenddi)
                  \/ NonEmpty(cresc_pos[i].micromedex_sev_level)
                  \/ NonEmpty(cresc_pos[i].micromedex_evid_level)
      [] src = "Mendeley" ->
           \E i \in 1..Len(mendeley) :
               SrcKey(mendeley[i]) = key /\ NonEmpty(mendeley[i].interaction_type_mendeley)

\* C4: a source is in sources_present iff it contributed a non-empty value
\* to some row of the pair.
C4_SourcesPresentIffContributed ==
    pc = "ddi_done" =>
        \A i \in 1..Len(ddi_ref) :
            \A src \in {"DDInter", "Micromedex", "Mendeley"} :
                (src \in Range(ddi_ref[i].sources_present))
                    <=> Contributes(src, ddi_ref[i].pair_key)

\* C5: every row's pair_key is the sorted pair of that row's own drug1_norm
\* and drug2_norm.
C5_PairKeyIsSortedNorms ==
    pc = "ddi_done" =>
        \A i \in 1..Len(ddi_ref) :
            /\ ~IsNa(ddi_ref[i].drug1_norm)
            /\ ~IsNa(ddi_ref[i].drug2_norm)
            /\ pair_key(ddi_ref[i].drug1_norm, ddi_ref[i].drug2_norm) = ddi_ref[i].pair_key

SourceKeys ==
    {SrcKey(ddinter[i]) : i \in 1..Len(ddinter)}
    \cup {SrcKey(cresc_pos[i]) : i \in 1..Len(cresc_pos)}
    \cup {SrcKey(mendeley[i]) : i \in 1..Len(mendeley)}

ValuesOf(t, c, key) ==
    {t[i][c] : i \in {j \in 1..Len(t) : SrcKey(t[j]) = key /\ NonEmpty(t[j][c])}}

\* C6: pair_key is symmetric, the reference has exactly one row per unordered
\* pair of normalized names of the sources, and the row's list fields hold
\* the values of every source row of that pair.
C6_PairKeySymmetricOneRowPerPair ==
    /\ \A a \in NormNames : \A b \in NormNames :
          /\ pair_key(a, b) = pair_key(b, a)
          /\ pair_key(a, b) \in {<<a, b>>, <<b, a>>}
    /\ pc = "ddi_done" =>
          /\ {ddi_ref[i].pair_key : i \in 1..Len(ddi_ref)} = SourceKeys
          /\ \A i \in 1..Len(ddi_ref) : \A j \in 1..Len(ddi_ref) :
                ddi_ref[i].pair_key = ddi_ref[j].pair_key => i = j
          /\ \A i \in 1..Len(ddi_ref) :
                LET k == ddi_ref[i].pair_key
                IN  /\ Range(ddi_ref[i].ddinter_level) = ValuesOf(ddinter, "ddinter_level", k)
                    /\ Range(ddi_ref[i].micromedex_sev_level)
                         = ValuesOf(cresc_pos, "micromedex_sev_level", k)
                    /\ Range(ddi_ref[i].micromedex_evid_level)
                         = ValuesOf(cresc_pos, "micromedex_evid_level", k)
                    /\ Range(ddi_ref[i].interaction_type_mendeley)
                         = ValuesOf(mendeley, "interaction_type_mendeley", k)

\* a DDInter row and a Mendeley row name the same two drugs in opposite order
\* and another spelling, and one reference row carries the values of both
C6_Witness ==
    /\ pc = "ddi_done"
    /\ \E i \in 1..Len(ddinter) : \E j \in 1..Len(mendeley) : \E r \in 1..Len(ddi_ref) :
          /\ normalize_name(ddinter[i].drug1_name) = normalize_name(mendeley[j].drug2_name)
          /\ normalize_name(ddinter[i].drug2_name) = normalize_name(mendeley[j].drug1_name)
          /\ normalize_name(ddinter[i].drug1_name) # normalize_name(ddinter[i].drug2_name)
          /\ ddinter[i].drug1_name # mendeley[j].drug2_name
          /\ ddi_ref[r].pair_key = SrcKey(ddinter[i])
          /\ ddinter[i].ddinter_level \in Range(ddi_ref[r].ddinter_level)
          /\ mendeley[j].interaction_type_mendeley
                \in Range(ddi_ref[r].interaction_type_mendeley)

\* C7: ddi_confidence is the number of sources in sources_present over 3,
\* that number being in 0..3.
C7_ConfidenceIsCountOverThree ==
    pc = "ddi_done" =>
        \A i \in 1..Len(ddi_ref) :
            LET n == Cardinality(Range(ddi_ref[i].sources_present))
            IN  /\ n \in 0..3
                /\ Len(ddi_ref[i].sources_present) = n
                /\ ddi_ref[i].ddi_confidence.num = n
                /\ ddi_ref[i].ddi_confidence.den = 3

\* one pair has all three sources and another pair has none
C7_Witness ==
    /\ pc = "ddi_done"
    /\ \E i \in 1..Len(ddi_ref) : ddi_ref[i].ddi_confidence = [num |-> 3, den |-> 3]

(***************************************************************************)
(* Stage 6: co-exposures of a patient and the join to the DDI reference    *)
(* (build_patient_ddi_collapsed).                                          *)
(***************************************************************************)
TsMax == 99          \* pd.Timestamp.max.tz_localize("UTC"): after every time of the data

Max2(a, b) == IF a >= b THEN a ELSE b
Min2(a, b) == IF a <= b THEN a ELSE b

\* a STOP that is missing counts as Timestamp.max
StopOrMax(t) == IF t = NaT THEN TsMax ELSE t

overlaps_one_sided(a0, a1, b0, b1) ==
    IF a0 = NaT \/ b0 = NaT THEN FALSE
    ELSE a0 <= StopOrMax(b1)
overlaps_strict(a0, a1, b0, b1) ==
    IF a0 = NaT \/ b0 = NaT THEN FALSE
    ELSE a0 < StopOrMax(b1) /\ b0 < StopOrMax(a1)
overlaps(a0, a1, b0, b1) ==
    IF a0 = NaT \/ b0 = NaT THEN FALSE
    ELSE a0 <= StopOrMax(b1) /\ b0 <= StopOrMax(a1)

HasCol(frame, c) == c \in Range(frame.cols)

DemoCols(frame) ==
    (IF HasCol(frame, "Age") THEN <<"Age">> ELSE <<>>)
    \o (IF HasCol(frame, "Sex") THEN <<"Sex">> ELSE <<>>)
    \o (IF HasCol(frame, "Comorbidities") THEN <<"Comorbidities">> ELSE <<>>)

\* a row cut down to the columns cs
Project(r, cs) == [c \in Range(cs) |-> r[c]]

DropNa(rows) ==
    Pick(rows, SelectIdx(Len(rows),
                         {i \in 1..Len(rows) :
                             /\ ~IsNa(rows[i].patient_uuid)
                             /\ ~IsNa(rows[i].drug_name)}))

\* lines 394-401: the columns the stage reads by name, drug_norm added, rows
\* without patient or drug dropped, repeated rows dropped (the first kept)
Exposures(frame) ==
    Dedup(DropNa([i \in 1..Len(frame.rows) |->
        Project(frame.rows[i] @@ [drug_norm |-> normalize_name(frame.rows[i].drug_name)],
                <<"patient_uuid", "drug_name", "drug_norm", "START", "STOP">>
                    \o DemoCols(frame))]))

\* combinations(recs, 2) of the records at the indices idx, in order
RECURSIVE Combinations(_)
Combinations(idx) ==
    IF Len(idx) < 2 THEN <<>>
    ELSE [j \in 1..(Len(idx) - 1) |-> <<idx[1], idx[j + 1]>>]
         \o Combinations(Tail(idx))

AnyDrug(r1, r2) == TRUE
DistinctDrug(r1, r2) == r1.drug_norm # r2.drug_norm

\* lines 412-414: the pairs of records the loop visits, patients ascending,
\* combinations of a patient's records in record order
Candidates(ex, pats) ==
    Concat([k \in 1..Len(pats) |->
        Combinations(SelectIdx(Len(ex),
                               {i \in 1..Len(ex) : ex[i].patient_uuid = pats[k]}))])

\* lines 418-428: the row appended for a pair of records.  e1 and e2 are
\* bookkeeping: the two exposure records the row was made from.
RowsFor(ex, cand, demo) ==
    [k \in 1..Len(cand) |->
        [patient_uuid |-> ex[cand[k][1]].patient_uuid,
         drug1 |-> ex[cand[k][1]].drug_name,
         drug2 |-> ex[cand[k][2]].drug_name,
         drug1_norm |-> ex[cand[k][1]].drug_norm,
         drug2_norm |-> ex[cand[k][2]].drug_norm,
         overlap_start |-> Max2(ex[cand[k][1]].START, ex[cand[k][2]].START),
         overlap_stop |-> Min2(StopOrMax(ex[cand[k][1]].STOP),
                               StopOrMax(ex[cand[k][2]].STOP)),
         demo |-> Project(ex[cand[k][1]], demo),
         e1 |-> ex[cand[k][1]], e2 |-> ex[cand[k][2]]]]

\* lines 415-417: the two skip tests
KeptCandidates(ex, cand) ==
    Pick(cand, SelectIdx(Len(cand),
        {k \in 1..Len(cand) :
            /\ DistinctDrug(ex[cand[k][1]], ex[cand[k][2]])
            /\ overlaps(ex[cand[k][1]].START, ex[cand[k][1]].STOP,
                        ex[cand[k][2]].START, ex[cand[k][2]].STOP)}))

\* lines 412-428: one row per overlapping pair of records of one patient with
\* different drug_norm; the patients ascending (groupby sorts its keys)
PairRows(ex, demo) ==
    RowsFor(ex,
            KeptCandidates(ex,
                Candidates(ex, SortTexts({ex[i].patient_uuid : i \in 1..Len(ex)}))),
            demo)

\* line 435: the reference's pair_key column is overwritten in place
Rekeyed(ref) ==
    [i \in 1..Len(ref) |->
        [ref[i] EXCEPT !.pair_key =
            IF IsNa(ref[i].drug1_norm) THEN <<NoText, NoText>>
            ELSE pair_key(ref[i].drug1_norm, ref[i].drug2_norm)]]

\* lines 437-441: left join on pair_key, one output row per matching
\* reference row, a row without a match kept with missing values
JoinOne(p, m) ==
    IF m = <<>>
    THEN <<p @@ [unified_severity |-> NoText,
                 unified_mechanism_text |-> NoText,
                 ddi_confidence |-> NoText,
                 ddi_known |-> FALSE]>>
    ELSE [i \in 1..Len(m) |->
            p @@ [unified_severity |-> m[i].unified_severity,
                  unified_mechanism_text |-> m[i].unified_mechanism_text,
                  ddi_confidence |-> m[i].ddi_confidence,
                  ddi_known |-> ~IsNa(m[i].unified_severity)]]

LeftJoinRef(pairs, ref) ==
    Concat([k \in 1..Len(pairs) |->
              JoinOne(pairs[k],
                      Pick(ref, SelectIdx(Len(ref),
                               {i \in 1..Len(ref) : ref[i].pair_key = pairs[k].pair_key})))])

\* A Comorbidities cell is a list of texts, or NoList where the patient has no
\* condition.  drop_duplicates hashes every cell, and a list has no hash.
NoList == <<NoText>>

\* lines 429-447: nothing to join, or the join with the reference.  Line 434
\* adds the pair_key column of the pairs; line 435 sorts [a, b] of every
\* reference row, and str and float do not compare.
Joined(pairs, ref) ==
    IF pairs = <<>>
    THEN [err |-> "none", out |-> <<>>, ref |-> ref, wrote |-> FALSE]
    ELSE IF \E i \in 1..Len(ref) : (IsNa(ref[i].drug1_norm) # IsNa(ref[i].drug2_norm))
    THEN [err |-> "TypeError", out |-> <<>>, ref |-> ref, wrote |-> FALSE]
    ELSE [err |-> "none",
          out |-> LeftJoinRef([k \in 1..Len(pairs) |->
                                  pairs[k] @@ [pair_key |-> pair_key(pairs[k].drug1_norm,
                                                                     pairs[k].drug2_norm)]],
                              Rekeyed(ref)),
          ref |-> Rekeyed(ref), wrote |-> TRUE]

\* the call build_patient_ddi_collapsed(frame, ref): the exception that ends
\* it or "none", the frame it returns, the reference frame as it leaves it,
\* and whether it wrote patient_ddi_collapsed_from_topk.csv.  drop_duplicates
\* (line 401) hashes every cell, and a list of comorbidities has no hash.
DdiCollapsedCall(frame, ref) ==
    IF \E c \in {"drug_name", "patient_uuid", "START", "STOP"} : ~HasCol(frame, c)
    THEN [err |-> "KeyError", out |-> <<>>, ref |-> ref, wrote |-> FALSE]
    ELSE IF /\ HasCol(frame, "Comorbidities")
            /\ \E i \in 1..Len(frame.rows) :
                  /\ ~IsNa(frame.rows[i].patient_uuid)
                  /\ ~IsNa(frame.rows[i].drug_name)
                  /\ frame.rows[i].Comorbidities # NoList
    THEN [err |-> "TypeError", out |-> <<>>, ref |-> ref, wrote |-> FALSE]
    ELSE Joined(PairRows(Exposures(frame), DemoCols(frame)), ref)

(* Top-K frames and reference frames the model draws from. *)
pX == <<"x">>
pY == <<"y">>

ExposureRow(p, d, iv) ==
    [patient_uuid |-> p, drug_name |-> d, START |-> iv[1], STOP |-> iv[2],
     Sex |-> <<"x">>]

ExposureCols == <<"patient_uuid", "Sex", "START", "STOP", "drug_name">>

RefFrames ==
    {Simplified(BuildDdiRef(<<DDInterRow(nA, nB, Major)>>, <<>>,
                            <<MendeleyRow(nB, nA, txtM1)>>)),
     Simplified(BuildDdiRef(<<DDInterRow(nB, nA, Unknown)>>,
                            <<CrescRow(NoText, nB, txtEv, Minor, NoText)>>, <<>>)),
     Simplified(BuildDdiRef(<<DDInterRow(NoText, nB, Minor),
                              DDInterRow(nB, nBrk, Major)>>, <<>>, <<>>))}

InitCoexp ==
    /\ pc = "coexp_ready"
    /\ err = "none"
    /\ ddinter = <<>> /\ cresc_pos = <<>> /\ mendeley = <<>> /\ ddi_ref = <<>>
    /\ \E n \in 0..MaxExposures :
         \E rows \in [1..n -> ({ExposureRow(pX, d, iv) : d \in {nA, nB},
                                iv \in {<<1, 2>>, <<2, 3>>, <<3, NaT>>, <<1, NaT>>, <<NaT, 2>>,
                                        <<3, 1>>}}
                               \cup {ExposureRow(pX, nAdot, iv) : iv \in {<<1, 2>>, <<1, NaT>>}}
                               \cup {ExposureRow(pY, nB, iv) : iv \in {<<1, 2>>, <<2, 3>>}}
                               \cup {ExposureRow(NoText, nA, <<1, 2>>),
                                     ExposureRow(pX, NoText, <<1, 2>>)})] :
            topk = [cols |-> ExposureCols, rows |-> rows]
    /\ enriched = <<>>
    /\ ddi_ref_unified \in RefFrames
    /\ collapsed = <<>>
    /\ cache_file = [exists |-> FALSE, rows |-> <<>>]
    /\ run = NoRun
    /\ inp = NoInput
    /\ risk_ann = <<>>
    /\ files = NoFiles
    /\ loaded = NoLoad
    /\ raw = NoRaw
    /\ aeolus_lookup = <<>>
    /\ named = NoName

\* main, line 475: the stage run on the Top-K frame and the unified
\* reference; the columns of the file it writes are those of lines 418-441
build_patient_ddi_collapsed ==
    /\ pc = "coexp_ready"
    /\ \E c \in {DdiCollapsedCall(topk, ddi_ref_unified)} :
           /\ err' = c.err
           /\ collapsed' = c.out
           /\ ddi_ref_unified' = c.ref
           /\ files' = IF c.wrote
                        THEN [files EXCEPT !["patient_ddi_collapsed_from_topk"] =
                                 [exists |-> TRUE,
                                  cols |-> <<"patient_uuid", "drug1", "drug2",
                                             "drug1_norm", "drug2_norm",
                                             "overlap_start", "overlap_stop">>
                                           \o DemoCols(topk)
                                           \o <<"pair_key", "unified_severity",
                                                "unified_mechanism_text",
                                                "ddi_confidence", "ddi_known">>,
                                  rows |-> c.out]]
                        ELSE files
    /\ pc' = "coexp_done"
    /\ UNCHANGED <<named, raw, aeolus_lookup, loaded, ddinter, cresc_pos, mendeley, ddi_ref,
                   topk, enriched, cache_file, run, inp, risk_ann>>

SpecCoexp == InitCoexp /\ [][build_patient_ddi_collapsed]_vars

(* Runs of the pipeline one after the other over the same output           *)
(* directory, and the loader after a run that ended without error.         *)

TopKFrames ==
    {[cols |-> ExposureCols, rows |-> rows] :
        rows \in UNION {[1..n -> ({ExposureRow(pX, nA, <<1, 2>>), ExposureRow(pX, nB, <<2, 3>>),
                                   ExposureRow(pX, nB, <<3, NaT>>)})] : n \in 0..MaxExposures}}

InitRerun ==
    /\ pc = "coexp_ready"
    /\ err = "none"
    /\ ddinter = <<>> /\ cresc_pos = <<>> /\ mendeley = <<>> /\ ddi_ref = <<>>
    /\ topk \in TopKFrames
    /\ enriched = <<>>
    /\ ddi_ref_unified \in RefFrames
    /\ collapsed = <<>>
    /\ cache_file = [exists |-> FALSE, rows |-> <<>>]
    /\ run = NoRun
    /\ inp = NoInput
    /\ risk_ann = <<>>
    /\ files = NoFiles
    /\ loaded = NoLoad
    /\ raw = NoRaw
    /\ aeolus_lookup = <<>>
    /\ named = NoName

\* load_to_postgres.main, lines 183-201: every table is truncated, a file
\* that is not there is skipped, a file that is there is read and copied
load_to_postgres ==
    /\ pc = "coexp_done"
    /\ err = "none"
    /\ loaded' = [f \in OutNames |->
                     IF files[f].exists THEN Len(files[f].rows) ELSE 0]
    /\ pc' = "loaded"
    /\ UNCHANGED <<named, raw, aeolus_lookup, err, ddinter, cresc_pos, mendeley, ddi_ref, topk,
                   enriched,
                   ddi_ref_unified, collapsed, cache_file, run, inp, risk_ann,
                   files>>

\* pipeline.main once more: the stages before the co-exposure stage hand it a
\* new Top-K frame and a newly built reference; the files under OUT are those
\* the earlier runs left
next_run ==
    /\ pc \in {"coexp_done", "loaded"}
    /\ topk' \in TopKFrames
    /\ ddi_ref_unified' \in RefFrames
    /\ collapsed' = <<>>
    /\ err' = "none"
    /\ pc' = "coexp_ready"
    /\ UNCHANGED <<named, raw, aeolus_lookup, loaded, ddinter, cresc_pos, mendeley, ddi_ref,
                   enriched,
                   cache_file, run, inp, risk_ann, files>>

SpecRerun == InitRerun /\ [][build_patient_ddi_collapsed \/ load_to_postgres \/ next_run]_vars

\* C15: build_patient_ddi_collapsed leaves the two frames it was handed,
\* topk and ddi_ref_unified, with the columns and values they had.
C15_ArgumentsLeftUnchanged ==
    [][pc = "coexp_ready" =>
          (topk' = topk /\ ddi_ref_unified' = ddi_ref_unified)]_vars

(***************************************************************************)
(* Claims about runs over the same output directory (SpecRerun).           *)
(***************************************************************************)
\* no two exposures of one patient in the Top-K frame overlap
NoPairOverlaps ==
    \A i, j \in 1..Len(topk.rows) :
        (i < j /\ topk.rows[i].patient_uuid = topk.rows[j].patient_uuid)
            => ~overlaps(topk.rows[i].START, topk.rows[i].STOP,
                         topk.rows[j].START, topk.rows[j].STOP)

\* C14: when no two exposures of a patient overlap, build_patient_ddi_collapsed
\* returns an empty frame without an exception, and the loader that runs next
\* reads no row of patient_ddi_collapsed_from_topk, whatever earlier runs left
\* under OUT.
C14_NoOverlapLoaderSeesNoRows ==
    /\ (pc \in {"coexp_done", "loaded"} /\ NoPairOverlaps)
            => (err = "none" /\ collapsed = <<>>)
    /\ (pc = "loaded" /\ NoPairOverlaps)
            => loaded["patient_ddi_collapsed_from_topk"] = 0

(***************************************************************************)
(* Claims about the co-exposure stage (SpecCoexp).                         *)
(***************************************************************************)
Times == {1, 2, 3}

\* the claim's test: a0 <= b1 and b0 <= a1, a missing stop being +infinity
ClaimedOverlap(a, b) ==
    /\ a.START # NaT /\ b.START # NaT
    /\ (b.STOP = NaT \/ a.START <= b.STOP)
    /\ (a.STOP = NaT \/ b.START <= a.STOP)

\* start <= stop where the stop is present
WellFormed(a) == a.START # NaT /\ (a.STOP = NaT \/ a.START <= a.STOP)

\* the two exposures share a point of time
SharePoint(a, b) ==
    \E t \in Times :
        /\ a.START <= t /\ (a.STOP = NaT \/ t <= a.STOP)
        /\ b.START <= t /\ (b.STOP = NaT \/ t <= b.STOP)

ReportedRows(a, b) ==
    {k \in 1..Len(collapsed) : collapsed[k].e1 = a /\ collapsed[k].e2 = b}

\* C8: two exposures of a patient with different drugs are reported iff
\* a0 <= b1 and b0 <= a1 (missing stop = +infinity); the test is symmetric;
\* for well-formed intervals it is having a common point of time; an exposure
\* without stop overlaps every well-formed exposure that starts later; the
\* window is [max of the starts, min of the stops].
C8_OverlapTestAndWindow ==
    (pc = "coexp_done" /\ err = "none") =>
        LET ex == Exposures(topk)
        IN  \A i \in 1..Len(ex) : \A j \in (i + 1)..Len(ex) :
              (ex[i].patient_uuid = ex[j].patient_uuid
                 /\ ex[i].drug_norm # ex[j].drug_norm) =>
                LET a == ex[i]
                    b == ex[j]
                IN  /\ (ReportedRows(a, b) # {}) <=> ClaimedOverlap(a, b)
                    /\ ClaimedOverlap(a, b) <=> ClaimedOverlap(b, a)
                    /\ (WellFormed(a) /\ WellFormed(b)) =>
                          (ClaimedOverlap(a, b) <=> SharePoint(a, b))
                    /\ (WellFormed(a) /\ WellFormed(b) /\ a.STOP = NaT
                          /\ b.START >= a.START) => ReportedRows(a, b) # {}
                    /\ (WellFormed(a) /\ WellFormed(b) /\ b.STOP = NaT
                          /\ a.START >= b.START) => ReportedRows(a, b) # {}
                    /\ \A k \in ReportedRows(a, b) :
                          /\ collapsed[k].overlap_start = Max2(a.START, b.START)
                          /\ collapsed[k].overlap_stop =
                                (IF a.STOP = NaT THEN StopOrMax(b.STOP)
                                 ELSE IF b.STOP = NaT THEN a.STOP
                                 ELSE Min2(a.STOP, b.STOP))

\* of one patient: an exposure without stop is reported with a later one, and
\* two disjoint exposures of different drugs are not reported
C8_Witness ==
    /\ pc = "coexp_done" /\ err = "none"
    /\ \E k \in 1..Len(collapsed) :
          /\ collapsed[k].e1.STOP = NaT
          /\ collapsed[k].e2.START > collapsed[k].e1.START
          /\ collapsed[k].overlap_start = collapsed[k].e2.START
    /\ LET ex == Exposures(topk)
       IN  \E i \in 1..Len(ex) : \E j \in (i + 1)..Len(ex) :
              /\ ex[i].patient_uuid = ex[j].patient_uuid
              /\ ex[i].drug_norm # ex[j].drug_norm
              /\ WellFormed(ex[i]) /\ WellFormed(ex[j])
              /\ ReportedRows(ex[i], ex[j]) = {}

\* C21: when every exposure whose stop is present starts no later than it
\* stops, every co-exposure row has overlap_start <= overlap_stop; and each row
\* made of two such exposures has an ordered window whatever the other
\* exposures are.  (An exposure that starts after its stop can pass the test
\* of line 408 and then yields a window with overlap_start > overlap_stop:
\* C21_Witness.)
C21_WindowOrderedForOrderedExposures ==
    (pc = "coexp_done" /\ err = "none") =>
        /\ (\A i \in 1..Len(topk.rows) :
                \/ topk.rows[i].STOP = NaT
                \/ topk.rows[i].START = NaT
                \/ topk.rows[i].START <= topk.rows[i].STOP)
              => \A k \in 1..Len(collapsed) :
                    collapsed[k].overlap_start <= collapsed[k].overlap_stop
        /\ \A k \in 1..Len(collapsed) :
              (WellFormed(collapsed[k].e1) /\ WellFormed(collapsed[k].e2))
                 => /\ collapsed[k].overlap_start <= collapsed[k].overlap_stop
                    /\ collapsed[k].overlap_start >= collapsed[k].e1.START
                    /\ collapsed[k].overlap_start >= collapsed[k].e2.START
                    /\ collapsed[k].overlap_stop <= StopOrMax(collapsed[k].e1.STOP)
                    /\ collapsed[k].overlap_stop <= StopOrMax(collapsed[k].e2.STOP)

\* one patient has an exposure that starts after its stop and an exposure of
\* another drug: the pair passes the test and its row's window is inverted;
\* another row, of exposures that start before they stop, has an ordered window
C21_Witness ==
    /\ pc = "coexp_done" /\ err = "none"
    /\ \E k \in 1..Len(collapsed) :
          /\ \/ (collapsed[k].e1.STOP # NaT
                   /\ collapsed[k].e1.START > collapsed[k].e1.STOP)
             \/ (collapsed[k].e2.STOP # NaT
                   /\ collapsed[k].e2.START > collapsed[k].e2.STOP)
          /\ collapsed[k].overlap_start > collapsed[k].overlap_stop
    /\ \E k \in 1..Len(collapsed) :
          /\ WellFormed(collapsed[k].e1) /\ WellFormed(collapsed[k].e2)
          /\ collapsed[k].overlap_start <= collapsed[k].overlap_stop

\* C9: every co-exposure row is made of two distinct exposure records of one
\* patient with different drug_norm and overlapping intervals, and no two rows
\* are made of the same pair of records.
C9_RowsAreDistinctDrugPairsOfOnePatient ==
    (pc = "coexp_done" /\ err = "none") =>
        LET ex == Exposures(topk)
        IN  /\ \A k \in 1..Len(collapsed) :
                  LET a == collapsed[k].e1
                      b == collapsed[k].e2
                  IN  /\ a \in Range(ex) /\ b \in Range(ex) /\ a # b
                      /\ a.patient_uuid = b.patient_uuid
                      /\ collapsed[k].patient_uuid = a.patient_uuid
                      /\ a.drug_norm # b.drug_norm
                      /\ collapsed[k].drug1_norm # collapsed[k].drug2_norm
                      /\ ClaimedOverlap(a, b)
            /\ \A k \in 1..Len(collapsed) : \A l \in 1..Len(collapsed) :
                  {collapsed[k].e1, collapsed[k].e2} = {collapsed[l].e1, collapsed[l].e2}
                      => k = l

\* one patient has two overlapping exposures of one normalized drug under two
\* names and a third of another drug: only the pairs with the third are rows
C9_Witness ==
    /\ pc = "coexp_done" /\ err = "none"
    /\ Len(collapsed) = 2
    /\ LET ex == Exposures(topk)
       IN  /\ Len(ex) = 3
           /\ \E i \in 1..3 : \E j \in 1..3 :
                 /\ i # j
                 /\ ex[i].drug_norm = ex[j].drug_norm
                 /\ ex[i].drug_name # ex[j].drug_name
                 /\ ex[i].patient_uuid = ex[j].patient_uuid
                 /\ ClaimedOverlap(ex[i], ex[j])

(***************************************************************************)
(* Stage 4, last step: Top-K per patient and canonical drug                *)
(* (build_patient_ae_tables, lines 266-271).                               *)
(***************************************************************************)
\* astype(str): a missing cell becomes the text "nan"
AsStr(v) == IF v = NoText THEN <<"n", "a", "n">> ELSE v

\* DataFrame.sort_values on several columns: a stable sort.  less[i][j] is
\* "row i sorts strictly before row j"; rows that tie keep their order.
StableSort(rows, less) ==
    LET n == Len(rows)
        before(i, j) == less[i][j] \/ (~less[j][i] /\ i < j)
        rank(i) == 1 + Cardinality({j \in 1..n : j # i /\ before(j, i)})
    IN  [k \in 1..n |-> rows[CHOOSE i \in 1..n : rank(i) = k]]

\* line 268: patient_uuid and synthea_drug ascending, ror and case_count descending
TopKLessAscending(a, b) ==
    \/ StrLess(a.patient_uuid, b.patient_uuid)
    \/ /\ a.patient_uuid = b.patient_uuid
       /\ \/ StrLess(a.synthea_drug, b.synthea_drug)
          \/ /\ a.synthea_drug = b.synthea_drug
             /\ \/ a.ror < b.ror
                \/ a.ror = b.ror /\ a.case_count < b.case_count
TopKLess(a, b) ==
    \/ StrLess(a.patient_uuid, b.patient_uuid)
    \/ /\ a.patient_uuid = b.patient_uuid
       /\ \/ StrLess(a.synthea_drug, b.synthea_drug)
          \/ /\ a.synthea_drug = b.synthea_drug
             /\ \/ a.ror > b.ror
                \/ a.ror = b.ror /\ a.case_count > b.case_count

\* groupby([patient_uuid, synthea_drug]).head(k): the rows that have fewer
\* than k rows of their own group before them, in the order of the frame
HeadPerGroup(rows, k) ==
    LET sameGroup(i, j) == /\ rows[i].patient_uuid = rows[j].patient_uuid
                           /\ rows[i].synthea_drug = rows[j].synthea_drug
        keep == {i \in 1..Len(rows) :
                    Cardinality({j \in 1..(i - 1) : sameGroup(i, j)}) < k}
        idx == SelectIdx(Len(rows), keep)
    IN  [i \in 1..Len(idx) |-> rows[idx[i]]]

\* lines 267-271
TopKRows(enr) ==
    LET withDrug == [i \in 1..Len(enr) |->
                        enr[i] @@ [synthea_drug |->
                            clean_synthea_drug(AsStr(enr[i].synthea_drug_desc))]]
        less == [i \in 1..Len(enr) |-> [j \in 1..Len(enr) |->
                    TopKLess(withDrug[i], withDrug[j])]]
    IN  HeadPerGroup(StableSort(withDrug, less), TOP_K)

\* lines 251-256 and 267: the columns of the enriched frame, then synthea_drug
TopKCols ==
    <<"patient_uuid", "Age", "Sex", "Comorbidities", "START", "STOP",
      "synthea_drug_desc", "rxcui_x", "ingredient_rxcui", "aeolus_drug_name",
      "outcome_text", "meddra_code", "case_count", "prr", "ror", "synthea_drug">>

\* line 260: patient_uuid ascending, ror and case_count descending
EnrichedLess(a, b) ==
    \/ StrLess(a.patient_uuid, b.patient_uuid)
    \/ /\ a.patient_uuid = b.patient_uuid
       /\ \/ a.ror > b.ror
          \/ a.ror = b.ror /\ a.case_count > b.case_count

(* Enriched rows the model draws from. *)
dA1 == <<"A", " ", "1">>
dA2 == <<"A", " ", " ", "2", "x">>
dB == <<"B">>

EnrichedRow(p, d, iv, r, c) ==
    [patient_uuid |-> p, synthea_drug_desc |-> d, START |-> iv[1], STOP |-> iv[2],
     ror |-> r, case_count |-> c]

InitTopK ==
    /\ pc = "enrich"
    /\ err = "none"
    /\ ddinter = <<>> /\ cresc_pos = <<>> /\ mendeley = <<>> /\ ddi_ref = <<>>
    /\ Idle

\* one more row of the enriched frame, in the order line 260 gives the frame
enriched_row ==
    /\ pc = "enrich"
    /\ Len(enriched) < MaxEnriched
    /\ \E r \in ({EnrichedRow(pX, dA1, <<1, 2>>, st[1], st[2]) :
                     st \in {<<3, 20>>, <<2, 21>>, <<2, 20>>}}
                 \cup {EnrichedRow(pX, dA2, <<1, 2>>, 2, 21), EnrichedRow(pX, dA2, <<1, 2>>, 2, 20),
                       EnrichedRow(pX, dB, <<1, 2>>, 3, 20), EnrichedRow(pY, dA1, <<2, 3>>, 2,
                                                                         20)}) :
          /\ enriched # <<>> => ~EnrichedLess(r, enriched[Len(enriched)])
          /\ enriched' = Append(enriched, r)
    /\ UNCHANGED <<named, raw, aeolus_lookup, loaded, pc, err, ddinter, cresc_pos, mendeley,
                   ddi_ref, topk,
                   ddi_ref_unified, collapsed, cache_file, run, inp, risk_ann, files>>

top_k_per_patient_drug ==
    /\ pc = "enrich"
    /\ topk' = [cols |-> TopKCols, rows |-> TopKRows(enriched)]
    /\ pc' = "topk_done"
    /\ UNCHANGED <<named, raw, aeolus_lookup, loaded, err, ddinter, cresc_pos, mendeley, ddi_ref,
                   enriched,
                   ddi_ref_unified, collapsed, cache_file, run, inp, risk_ann, files>>

SpecTopK == InitTopK /\ [][enriched_row \/ top_k_per_patient_drug]_vars

(***************************************************************************)
(* Claims about Top-K (SpecTopK).                                          *)
(***************************************************************************)
CanonicalDrug(r) == clean_synthea_drug(AsStr(r.synthea_drug_desc))

GroupOf(i) ==
    {j \in 1..Len(enriched) :
        /\ enriched[j].patient_uuid = enriched[i].patient_uuid
        /\ CanonicalDrug(enriched[j]) = CanonicalDrug(enriched[i])}

\* row j of the enriched frame ranks before row i: higher ror, then higher
\* case_count, then earlier in the frame
RanksBefore(j, i) ==
    \/ enriched[j].ror > enriched[i].ror
    \/ /\ enriched[j].ror = enriched[i].ror
       /\ \/ enriched[j].case_count > enriched[i].case_count
          \/ enriched[j].case_count = enriched[i].case_count /\ j < i

PlaceInGroup(i) == 1 + Cardinality({j \in GroupOf(i) : j # i /\ RanksBefore(j, i)})

\* the rows of the Top-K frame that belong to the group of enriched row i
TopKOfGroup(i) ==
    LET idx == SelectIdx(Len(topk.rows),
                  {k \in 1..Len(topk.rows) :
                      /\ topk.rows[k].patient_uuid = enriched[i].patient_uuid
                      /\ topk.rows[k].synthea_drug = CanonicalDrug(enriched[i])})
    IN  [k \in 1..Len(idx) |-> Project(topk.rows[idx[k]],
            <<"patient_uuid", "synthea_drug_desc", "START", "STOP", "ror", "case_count">>)]

\* C3: of every (patient, canonical drug) group the Top-K frame holds at most
\* 5 rows, namely the first 5 of the group ordered by ror descending, then
\* case_count descending, then position in the enriched frame; a group of at
\* most 5 rows is kept whole.
C3_TopKIsFirstFivePerGroup ==
    pc = "topk_done" =>
        /\ \A i \in 1..Len(enriched) :
              LET g == GroupOf(i)
                  n == IF Cardinality(g) < 5 THEN Cardinality(g) ELSE 5
                  t == TopKOfGroup(i)
              IN  /\ Len(t) = n
                  /\ \A k \in 1..n :
                        \E j \in g : PlaceInGroup(j) = k /\ t[k] = enriched[j]
        /\ \A k \in 1..Len(topk.rows) :
              \E i \in 1..Len(enriched) :
                  /\ topk.rows[k].patient_uuid = enriched[i].patient_uuid
                  /\ topk.rows[k].synthea_drug = CanonicalDrug(enriched[i])

\* C20: every exposure (patient, drug description, START, STOP) that has a
\* row in the enriched frame has a row in the Top-K frame.
C20_EveryExposureKeepsARow ==
    pc = "topk_done" =>
        \A i \in 1..Len(enriched) :
            \E k \in 1..Len(topk.rows) :
                /\ topk.rows[k].patient_uuid = enriched[i].patient_uuid
                /\ topk.rows[k].synthea_drug_desc = enriched[i].synthea_drug_desc
                /\ topk.rows[k].START = enriched[i].START
                /\ topk.rows[k].STOP = enriched[i].STOP

\* a group of 6 rows written with two descriptions loses exactly its last
\* row, and that row ties on ror and case_count with a row that is kept
C3_Witness ==
    /\ pc = "topk_done"
    /\ \E i \in 1..Len(enriched) : \E j \in GroupOf(i) :
          /\ Cardinality(GroupOf(i)) = 6
          /\ Len(TopKOfGroup(i)) = 5
          /\ PlaceInGroup(i) = 6
          /\ PlaceInGroup(j) = 5
          /\ enriched[i].ror = enriched[j].ror
          /\ enriched[i].case_count = enriched[j].case_count
          /\ enriched[i].synthea_drug_desc # enriched[j].synthea_drug_desc

(***************************************************************************)
(* Stage 3: product -> ingredient mapping and its cache file               *)
(* (map_product_to_ingredient).                                            *)
(***************************************************************************)

\* line 180: the identity mapping
IdentityMap(ids) == [i \in 1..Len(ids) |-> [rxcui |-> ids[i], ingredient_rxcui |-> ids[i]]]

\* What RxNav does with one request: no answer within the timeout, an answer
\* with a non-success status, a body that is not the expected JSON, a body
\* without an ingredient group, or a body whose ingredient group names ing.
Timeout == [kind |-> "timeout", ing |-> NoId]
Found(i) == [kind |-> "ok", ing |-> i]

\* lines 185-192, the body of the try: requests.get raises on a timeout,
\* resp.json() and the subscripts raise on a malformed body; "not resp.ok"
\* returns None and a loop that finds no group falls off the end (None)
TryBody(resp) ==
    [raised |-> resp.kind \in {"timeout", "malformed"},
     value |-> IF resp.kind = "ok" THEN resp.ing ELSE NoId]

\* an exception on its way out of a call
Raised == 0 - 2

\* lines 183-194: get_ing, "except Exception: return None"
get_ing_uncaught(resp) ==
    IF TryBody(resp).raised THEN Raised ELSE TryBody(resp).value
get_ing(resp) ==
    IF TryBody(resp).raised THEN NoId ELSE TryBody(resp).value

\* line 170: cache_path.exists()
CacheHitUnlessOnline(file, use_rxnav) == file.exists /\ ~use_rxnav
CacheHit(file, use_rxnav) == file.exists

\* lines 195-199, the product of the loop: an exception that left get_ing
\* ends the loop before anything is written; otherwise to_csv(index=False)
\* persists the mapping.  The record is the outcome of the call: the frame
\* returned, the file as left, requests sent, files written.
Mapped(mp, file, requests) ==
    IF \E i \in 1..Len(mp) : mp[i].ingredient_rxcui = Raised
    THEN [err |-> "Exception", result |-> <<>>, file |-> file,
          requests |-> requests, writes |-> 0]
    ELSE [err |-> "none", result |-> mp, file |-> [exists |-> TRUE, rows |-> mp],
          requests |-> requests, writes |-> 1]

\* lines 177-196: the identity mapping, or one request per identifier, in
\* order; answer[r] is what RxNav does with the request for r
MapIds(file, ids, use_rxnav, answer) ==
    IF use_rxnav
    THEN Mapped([i \in 1..Len(ids) |->
                    [rxcui |-> ids[i], ingredient_rxcui |-> get_ing(answer[ids[i]])]],
                file, Len(ids))
    ELSE Mapped(IdentityMap(ids), file, 0)

\* the call map_product_to_ingredient(meds, use_rxnav) on the file as found.
\* A cache hit returns read_csv of the file (the rows come back, a missing
\* ingredient as a missing cell); otherwise the identifiers are
\* meds["rxcui"].dropna().astype(int).unique().tolist()
MapCall(file, col, use_rxnav, answer) ==
    IF CacheHit(file, use_rxnav)
    THEN [err |-> "none", result |-> file.rows, file |-> file,
          requests |-> 0, writes |-> 0]
    ELSE MapIds(file,
                Dedup(Pick(col, SelectIdx(Len(col), {i \in 1..Len(col) : col[i] # NoId}))),
                use_rxnav, answer)

(* Medication identifier columns and RxNav answers the model draws from. *)
ProductIds == {1, 2}

InitCache ==
    /\ pc = "runs"
    /\ err = "none"
    /\ ddinter = <<>> /\ cresc_pos = <<>> /\ mendeley = <<>> /\ ddi_ref = <<>>
    /\ Idle

\* one pipeline run reaches "Mapping RxCUI product->ingredient"
map_product_to_ingredient ==
    /\ pc = "runs"
    /\ run.n < MaxRuns
    /\ \E col \in {<<1>>, <<2, 1, 2>>, <<1, NoId>>, <<2>>} :
        \E use_rxnav \in BOOLEAN :
        \E answer \in [ProductIds -> {Timeout,
                                      [kind |-> "status", ing |-> NoId],
                                      [kind |-> "malformed", ing |-> NoId],
                                      [kind |-> "no_relation", ing |-> NoId],
                                      Found(7), Found(8)}] :
        \E c \in {MapCall(cache_file, col, use_rxnav, answer)} :
              /\ err' = c.err
              /\ cache_file' = c.file
              /\ run' = [n |-> run.n + 1, meds |-> col, use_rxnav |-> use_rxnav,
                         answer |-> answer, result |-> c.result,
                         requests |-> run.requests + c.requests,
                         writes |-> run.writes + c.writes]
    /\ UNCHANGED <<named, raw, aeolus_lookup, loaded, pc, ddinter, cresc_pos, mendeley, ddi_ref,
                   topk, enriched, ddi_ref_unified, collapsed, inp, risk_ann, files>>

SpecCache == InitCache /\ [][map_product_to_ingredient]_vars

C11_OnlineFaultIsolated ==
    [][(run' # run /\ ~cache_file.exists /\ run'.use_rxnav) =>
          /\ err' = "none"
          /\ \A i \in 1..Len(run'.result) : run'.result[i].rxcui \in ProductIds
          /\ \A p \in ProductIds :
                Cardinality({i \in 1..Len(run'.result) : run'.result[i].rxcui = p})
                    = IF p \in Range(run'.meds) THEN 1 ELSE 0
          /\ \A i \in 1..Len(run'.result) :
                run'.result[i].ingredient_rxcui =
                    IF run'.answer[run'.result[i].rxcui].kind = "ok"
                    THEN run'.answer[run'.result[i].rxcui].ing
                    ELSE NoId
          /\ cache_file'.exists /\ cache_file'.rows = run'.result
      ]_vars

\* the first call was online, one lookup timed out and the other succeeded
C11_Witness ==
    /\ run.n = 1
    /\ run.use_rxnav
    /\ err = "none"
    /\ Len(run.result) = 2
    /\ \E i, j \in 1..2 :
          /\ run.answer[run.result[i].rxcui] = Timeout
          /\ run.result[i].ingredient_rxcui = NoId
          /\ run.answer[run.result[j].rxcui] = Found(7)
          /\ run.result[j].ingredient_rxcui = 7

(***************************************************************************)
(* Stage 4: patient risk rows, enrichment, Top-K (build_patient_ae_tables).*)
(* Rows carry the columns that decide something; meddra_code, prr and      *)
(* outcome_concept_id pass through and are kept in the column lists only.  *)
(***************************************************************************)
ONSET_DAYS == 5
YEAR_DAYS == 365
Now == 4             \* pd.Timestamp.now(tz="UTC"), read only when no START is known

\* line 217: left join on rxcui, a medication without mapping row kept with a
\* missing ingredient
WithIngredient(mm, map) ==
    LET one(m) ==
            LET hit == SelectIdx(Len(map), {i \in 1..Len(map) : map[i].rxcui = m.rxcui})
            IN  IF hit = <<>> THEN <<m @@ [ingredient_rxcui |-> NoId]>>
                ELSE [i \in 1..Len(hit) |->
                        m @@ [ingredient_rxcui |-> map[hit[i]].ingredient_rxcui]]
    IN  Concat([k \in 1..Len(mm) |-> one(mm[k])])

\* line 219: the join keys, ingredient_rxcui on the left and the lookup's
\* rxcui on the right; a missing ingredient matches no lookup row
IngredientMatchesProduct(m, l) == l.rxcui = m.rxcui
IngredientMatches(m, l) ==
    m.ingredient_rxcui # NoId /\ l.rxcui = m.ingredient_rxcui

\* lines 219-221: inner join to the lookup on the ingredient; estimated_onset
Risk(mi, lookup) ==
    LET one(m) ==
            LET hit == SelectIdx(Len(lookup),
                          {i \in 1..Len(lookup) : IngredientMatches(m, lookup[i])})
            IN  [i \in 1..Len(hit) |->
                    [patient_uuid |-> m.patient_uuid,
                     rxcui_x |-> m.rxcui,
                     ingredient_rxcui |-> m.ingredient_rxcui,
                     synthea_drug_desc |-> m.DESCRIPTION,
                     aeolus_drug_name |-> lookup[hit[i]].drug_name,
                     START |-> m.START, STOP |-> m.STOP,
                     estimated_onset |-> IF m.START = NaT THEN NaT
                                         ELSE m.START + ONSET_DAYS,
                     outcome_text |-> lookup[hit[i]].outcome_text,
                     case_count |-> lookup[hit[i]].case_count,
                     ror |-> lookup[hit[i]].ror]]
    IN  Concat([k \in 1..Len(mi) |-> one(mi[k])])

\* lines 211-228: the medications that have a product identifier, joined to
\* the mapping and the lookup, then sorted by patient_uuid and
\* ingredient_rxcui ascending and ror descending
RiskAnn(meds, map, lookup) ==
    LET keep == SelectIdx(Len(meds), {i \in 1..Len(meds) : meds[i].rxcui # NoId})
        r == Risk(WithIngredient([i \in 1..Len(keep) |->
                                     [patient_uuid |-> meds[keep[i]].PATIENT,
                                      DESCRIPTION |-> meds[keep[i]].DESCRIPTION,
                                      START |-> meds[keep[i]].START,
                                      STOP |-> meds[keep[i]].STOP,
                                      rxcui |-> meds[keep[i]].rxcui]],
                                 map),
                  lookup)
    IN  StableSort(r, [i \in 1..Len(r) |-> [j \in 1..Len(r) |->
            \/ StrLess(r[i].patient_uuid, r[j].patient_uuid)
            \/ /\ r[i].patient_uuid = r[j].patient_uuid
               /\ \/ r[i].ingredient_rxcui < r[j].ingredient_rxcui
                  \/ /\ r[i].ingredient_rxcui = r[j].ingredient_rxcui
                     /\ r[i].ror > r[j].ror]])

\* lines 235-238: age in whole 365-day years at the earliest START (the
\* least element of the set of known starts), or at now where none is known
Demo(patients, ra, now) ==
    LET starts == {ra[i].START : i \in {j \in 1..Len(ra) : ra[j].START # NaT}}
        idx_date == IF starts # {}
                    THEN CHOOSE m \in starts : \A o \in starts : m <= o
                    ELSE now
    IN  [i \in 1..Len(patients) |->
            [patient_uuid |-> patients[i].Id, Sex |-> patients[i].GENDER,
             Age |-> IF patients[i].BIRTHDATE = NaT THEN NoId
                     ELSE (idx_date - patients[i].BIRTHDATE) \div YEAR_DAYS]]

\* lines 241-244: per patient the sorted distinct condition descriptions
Comorb(conds) ==
    LET pats == SortTexts({conds[i].PATIENT : i \in
                              {j \in 1..Len(conds) : ~IsNa(conds[j].PATIENT)}})
    IN  [k \in 1..Len(pats) |->
            [patient_uuid |-> pats[k],
             Comorbidities |-> SortTexts({conds[i].DESCRIPTION : i \in
                 {j \in 1..Len(conds) : conds[j].PATIENT = pats[k]
                                        /\ ~IsNa(conds[j].DESCRIPTION)}})]]

\* lines 246-248: two left joins on patient_uuid
Enrich(ra, demo, comorb) ==
    LET withDemo(r) ==
            LET hit == SelectIdx(Len(demo),
                          {i \in 1..Len(demo) : demo[i].patient_uuid = r.patient_uuid})
            IN  IF hit = <<>> THEN <<r @@ [Sex |-> NoText, Age |-> NoId]>>
                ELSE [i \in 1..Len(hit) |->
                        r @@ [Sex |-> demo[hit[i]].Sex, Age |-> demo[hit[i]].Age]]
        withComorb(r) ==
            LET hit == SelectIdx(Len(comorb),
                          {i \in 1..Len(comorb) : comorb[i].patient_uuid = r.patient_uuid})
            IN  IF hit = <<>> THEN <<r @@ [Comorbidities |-> NoList]>>
                ELSE [i \in 1..Len(hit) |->
                        r @@ [Comorbidities |-> comorb[hit[i]].Comorbidities]]
        d == Concat([k \in 1..Len(ra) |-> withDemo(ra[k])])
    IN  Concat([k \in 1..Len(d) |-> withComorb(d[k])])

\* lines 246-260: the joins, keep_cols (lines 251-256), the sort of line 260
Enriched(ra, patients, conds, now) ==
    LET e == Enrich(ra, Demo(patients, ra, now), Comorb(conds))
    IN  StableSort([i \in 1..Len(e) |->
                       Project(e[i], <<"patient_uuid", "Age", "Sex", "Comorbidities",
                                       "START", "STOP", "synthea_drug_desc", "rxcui_x",
                                       "ingredient_rxcui", "aeolus_drug_name",
                                       "outcome_text", "case_count", "ror">>)],
                   [i \in 1..Len(e) |-> [j \in 1..Len(e) |-> EnrichedLess(e[i], e[j])]])

(* The end-to-end scenario: one patient, two medications, an identity      *)
(* mapping, a lookup of two rows, a reference of one row for the two drugs.*)
MedOf(p, d, iv, id) ==
    [PATIENT |-> p, DESCRIPTION |-> d, START |-> iv[1], STOP |-> iv[2], rxcui |-> id]
Med(d, iv, id) == MedOf(pX, d, iv, id)
\* the columns of patients.csv and conditions.csv the stage reads
PatientCols == <<"Id", "BIRTHDATE", "GENDER">>
CondCols == <<"PATIENT", "DESCRIPTION">>
LookupRow(id, name, txt, c, r) ==
    [rxcui |-> id, drug_name |-> name, outcome_text |-> txt, case_count |-> c, ror |-> r]

\* the text under which the co-exposure stage is to find a medication
DrugText(desc) == normalize_name(clean_synthea_drug(desc))

InitE2E ==
    /\ pc = "ae_ready"
    /\ err = "none"
    /\ ddinter = <<>> /\ cresc_pos = <<>> /\ mendeley = <<>> /\ ddi_ref = <<>>
    /\ topk = [cols |-> <<>>, rows |-> <<>>]
    /\ enriched = <<>>
    /\ collapsed = <<>>
    /\ cache_file = [exists |-> FALSE, rows |-> <<>>]
    /\ run = NoRun
    /\ risk_ann = <<>>
    /\ files = NoFiles
    /\ loaded = NoLoad
    /\ raw = NoRaw
    /\ aeolus_lookup = <<>>
    /\ named = NoName
    /\ \E iv1 \in {<<1, 2>>, <<1, NaT>>, <<2, 3>>} :
         \E iv2 \in {<<1, 2>>, <<2, 3>>, <<3, NaT>>} :
           \E d1 \in {dA1, dA2} : \E r1 \in {2, 3} :
             \E cs \in {<<>>, <<[PATIENT |-> pX, DESCRIPTION |-> <<"y">>]>>} :
               \E sev \in {Major, Minor} :
                 /\ inp = [meds |-> <<Med(d1, iv1, 1), Med(dB, iv2, 2)>>,
                           patients |-> <<[Id |-> pX, BIRTHDATE |-> 0 - 800,
                                           GENDER |-> <<"x">>]>>,
                           patient_cols |-> PatientCols,
                           conds |-> cs, cond_cols |-> CondCols,
                           aeolus_by_rxcui |->
                               <<LookupRow(1, <<"a">>, <<"x">>, 20, r1),
                                 LookupRow(2, <<"b">>, <<"y">>, 21, 2)>>,
                           prod_ing_map |-> IdentityMap(<<1, 2>>)]
                 /\ ddi_ref_unified =
                        <<[pair_key |-> pair_key(DrugText(d1), DrugText(dB)),
                           drug1_norm |-> DrugText(d1), drug2_norm |-> DrugText(dB),
                           unified_severity |-> sev,
                           unified_mechanism_text |-> <<txtM1>>,
                           sources_present |-> <<"DDInter">>,
                           ddi_confidence |-> [num |-> 1, den |-> 3]]>>

Frame(cs, rows) == [exists |-> TRUE, cols |-> cs, rows |-> rows]

\* lines 262-277: the enriched file, the ranking, the Top-K file
AeRanked(ra, en) ==
    [err |-> "none", risk_ann |-> ra, enriched |-> en, topk |-> TopKRows(en),
     wrote |-> {"patient_ae_risk_annotations_rxnav", "ae_risk_enriched",
                "ae_risk_topk_per_patient_drug"}]

\* lines 230-260: the risk file is written before demographics and
\* comorbidities are computed.  Line 237 selects Id and GENDER of patients,
\* line 241 groups conditions by PATIENT and selects DESCRIPTION: a KeyError
\* where the column is not there.
AeFrom(in, ra, now) ==
    IF \/ ~({"Id", "GENDER"} \subseteq Range(in.patient_cols))
       \/ ~({"PATIENT", "DESCRIPTION"} \subseteq Range(in.cond_cols))
    THEN [err |-> "KeyError", risk_ann |-> ra, enriched |-> <<>>, topk |-> <<>>,
          wrote |-> {"patient_ae_risk_annotations_rxnav"}]
    ELSE AeRanked(ra, Enriched(ra, in.patients, in.conds, now))

\* the call build_patient_ae_tables(meds, patients, conds, aeolus_by_rxcui,
\* prod_ing_map): the exception that ends it or "none", the three frames, and
\* the files it has written by then
AeCall(in, now) ==
    AeFrom(in, RiskAnn(in.meds, in.prod_ing_map, in.aeolus_by_rxcui), now)

\* main, line 469: an exception leaves the locals unassigned and ends the
\* run.  to_csv leaves in each file written the columns of its frame: those
\* of line 221 in the risk file (line 231), keep_cols of lines 251-256 in the
\* enriched file (line 263), keep_cols and synthea_drug in the Top-K file.
build_patient_ae_tables ==
    /\ pc = "ae_ready"
    /\ \E c \in {AeCall(inp, Now)} :
           /\ err' = c.err
           /\ files' = [f \in OutNames |->
                 IF f \notin c.wrote THEN files[f]
                 ELSE IF f = "patient_ae_risk_annotations_rxnav"
                 THEN Frame(<<"patient_uuid", "rxcui_x", "ingredient_rxcui",
                              "synthea_drug_desc", "aeolus_drug_name", "START", "STOP",
                              "estimated_onset", "outcome_concept_id", "outcome_text",
                              "meddra_code", "case_count", "prr", "ror">>, c.risk_ann)
                 ELSE IF f = "ae_risk_enriched"
                 THEN Frame(<<"patient_uuid", "Age", "Sex", "Comorbidities", "START",
                              "STOP", "synthea_drug_desc", "rxcui_x", "ingredient_rxcui",
                              "aeolus_drug_name", "outcome_text", "meddra_code",
                              "case_count", "prr", "ror">>, c.enriched)
                 ELSE Frame(TopKCols, c.topk)]
           /\ IF c.err = "none"
              THEN /\ risk_ann' = c.risk_ann
                   /\ enriched' = c.enriched
                   /\ topk' = [cols |-> TopKCols, rows |-> c.topk]
                   /\ pc' = "coexp_ready"
              ELSE /\ UNCHANGED <<risk_ann, enriched, topk>>
                   /\ pc' = "aborted"
    /\ UNCHANGED <<named, raw, aeolus_lookup, loaded, ddinter, cresc_pos, mendeley, ddi_ref,
                   ddi_ref_unified, collapsed, cache_file, run, inp>>

(* Stage 4 on its own: medications of two patients, mappings with and      *)
(* without a missing ingredient, lookups keyed by product or by ingredient,*)
(* patients.csv and conditions.csv with and without a column the stage     *)
(* selects.                                                                *)

MapRow(r, i) == [rxcui |-> r, ingredient_rxcui |-> i]

InitAE ==
    /\ pc = "ae_ready"
    /\ err = "none"
    /\ ddinter = <<>> /\ cresc_pos = <<>> /\ mendeley = <<>> /\ ddi_ref = <<>>
    /\ topk = [cols |-> <<>>, rows |-> <<>>]
    /\ enriched = <<>>
    /\ ddi_ref_unified = <<>>
    /\ collapsed = <<>>
    /\ cache_file = [exists |-> FALSE, rows |-> <<>>]
    /\ run = NoRun
    /\ risk_ann = <<>>
    /\ files = NoFiles
    /\ loaded = NoLoad
    /\ raw = NoRaw
    /\ aeolus_lookup = <<>>
    /\ named = NoName
    /\ \E n \in 0..MaxMeds :
         \E ms \in [1..n -> {MedOf(pX, dA1, <<1, 2>>, 1), MedOf(pX, dB, <<2, 3>>, 2),
                             MedOf(pX, dA2, <<3, NaT>>, NoId), MedOf(pY, dB, <<1, NaT>>, 2),
                             MedOf(pX, dA2, <<2, 3>>, 3), MedOf(pY, dA1, <<NaT, 2>>, 1)}] :
           \E mp \in {IdentityMap(<<1, 2, 3>>),
                      <<MapRow(1, 7), MapRow(2, NoId)>>,
                      <<MapRow(1, 7), MapRow(2, 7), MapRow(3, 8)>>} :
             \E lk \in {<<LookupRow(1, <<"a">>, <<"x">>, 20, 3),
                          LookupRow(1, <<"a">>, <<"y">>, 21, 2),
                          LookupRow(2, <<"b">>, <<"x">>, 20, 2)>>,
                        <<LookupRow(7, <<"a">>, <<"x">>, 20, 3),
                          LookupRow(7, <<"a">>, <<"y">>, 25, 2),
                          LookupRow(8, <<"b">>, <<"y">>, 20, 2)>>} :
               \E pcs \in {PatientCols, <<"Id", "BIRTHDATE">>} :
                 \E ccs \in {CondCols, <<"PATIENT">>} :
                   inp = [meds |-> ms,
                          patients |-> <<[Id |-> pX, BIRTHDATE |-> 0 - 800, GENDER |-> <<"x">>],
                                         [Id |-> pY, BIRTHDATE |-> NaT, GENDER |-> <<"y">>]>>,
                          patient_cols |-> pcs,
                          conds |-> <<[PATIENT |-> pX, DESCRIPTION |-> <<"y">>]>>,
                          cond_cols |-> ccs,
                          aeolus_by_rxcui |-> lk, prod_ing_map |-> mp]

SpecAE == InitAE /\ [][build_patient_ae_tables]_vars

(***************************************************************************)
(* Claims about stage 4 (SpecAE).                                          *)
(***************************************************************************)
\* the rows of the risk file
RiskFile == files["patient_ae_risk_annotations_rxnav"].rows

\* the pairs (medication i, lookup row k) the claim speaks of: the medication
\* has a product identifier, the mapping gives that product an ingredient,
\* and the lookup row is about that ingredient
RiskPairs ==
    {p \in (1..Len(inp.meds)) \X (1..Len(inp.aeolus_by_rxcui)) :
        /\ inp.meds[p[1]].rxcui # NoId
        /\ \E m \in Range(inp.prod_ing_map) :
              /\ m.rxcui = inp.meds[p[1]].rxcui
              /\ m.ingredient_rxcui # NoId
              /\ m.ingredient_rxcui = inp.aeolus_by_rxcui[p[2]].rxcui}

\* the risk row of such a pair
RiskRowOf(p) ==
    [patient_uuid |-> inp.meds[p[1]].PATIENT,
     rxcui_x |-> inp.meds[p[1]].rxcui,
     ingredient_rxcui |-> inp.aeolus_by_rxcui[p[2]].rxcui,
     synthea_drug_desc |-> inp.meds[p[1]].DESCRIPTION,
     aeolus_drug_name |-> inp.aeolus_by_rxcui[p[2]].drug_name,
     START |-> inp.meds[p[1]].START, STOP |-> inp.meds[p[1]].STOP,
     estimated_onset |-> IF inp.meds[p[1]].START = NaT THEN NaT
                         ELSE inp.meds[p[1]].START + ONSET_DAYS,
     outcome_text |-> inp.aeolus_by_rxcui[p[2]].outcome_text,
     case_count |-> inp.aeolus_by_rxcui[p[2]].case_count,
     ror |-> inp.aeolus_by_rxcui[p[2]].ror]

C12_FailedStageWritesNothing ==
    [][(pc = "ae_ready" /\ err' # "none") => files' = files]_vars

SpecE2E == InitE2E /\ [][build_patient_ae_tables \/ build_patient_ddi_collapsed]_vars

(***************************************************************************)
(* Claims about the two stages run one after the other (SpecE2E).          *)
(***************************************************************************)
MedsOverlap ==
    LET m == inp.meds
    IN  Len(m) = 2 /\ ClaimedOverlap(m[1], m[2])

\* C1: with two overlapping medications of one patient, build_patient_ae_tables
\* followed by build_patient_ddi_collapsed ends without error and gives
\* exactly one co-exposure row, known, with the reference row's severity,
\* mechanism and confidence.
C1_EndToEndOneKnownRow ==
    (pc = "coexp_done" /\ MedsOverlap) =>
        /\ err = "none"
        /\ Len(collapsed) = 1
        /\ collapsed[1].ddi_known
        /\ collapsed[1].unified_severity = ddi_ref_unified[1].unified_severity
        /\ collapsed[1].unified_mechanism_text = ddi_ref_unified[1].unified_mechanism_text
        /\ collapsed[1].ddi_confidence = ddi_ref_unified[1].ddi_confidence

(***************************************************************************)
(* The loader (load_to_postgres.py): the columns of its target tables, in  *)
(* the order of the CREATE TABLE statements.  COPY is positional and the   *)
(* files are sent without their header line.                               *)
(***************************************************************************)
TableCols ==
    [aeolus_drug_outcome_lookup |->
        <<"rxcui", "drug_name", "outcome_concept_id", "outcome_text",
          "meddra_code", "case_count", "prr", "ror">>,
     rxcui_to_ingredient_map |-> <<"rxcui", "ingredient_rxcui">>,
     patient_ae_risk_annotations_rxnav |->
        <<"patient_uuid", "rxcui_x", "ingredient_rxcui", "synthea_drug_desc",
          "aeolus_drug_name", "START", "STOP", "estimated_onset",
          "outcome_concept_id", "outcome_text", "meddra_code",
          "case_count", "prr", "ror">>,
     ae_risk_enriched |->
        <<"patient_uuid", "Age", "Sex", "Comorbidities", "START", "STOP",
          "synthea_drug_desc", "rxcui_x", "ingredient_rxcui", "aeolus_drug_name",
          "outcome_text", "meddra_code", "case_count", "prr", "ror",
          "synthea_drug">>,
     ae_risk_topk_per_patient_drug |->
        <<"patient_uuid", "Age", "Sex", "Comorbidities", "START", "STOP",
          "synthea_drug_desc", "rxcui_x", "ingredient_rxcui", "aeolus_drug_name",
          "outcome_text", "meddra_code", "case_count", "prr", "ror",
          "synthea_drug">>,
     ddi_ref_unified |->
        <<"pair_key", "drug1_norm", "drug2_norm", "unified_severity",
          "unified_mechanism_text", "sources_present", "ddi_confidence">>,
     patient_ddi_collapsed_from_topk |->
        <<"patient_uuid", "drug1", "drug2", "drug1_norm", "drug2_norm",
          "overlap_start", "overlap_stop", "Age", "Sex", "Comorbidities",
          "pair_key", "unified_severity", "unified_mechanism_text",
          "ddi_confidence", "ddi_known">>]

\* C13: the columns of every file the pipeline has written are the columns of
\* the loader's table for that file, name by name and in the same order.  The
\* first three conjuncts are the columns stages 2, 3 and 5 write
\* (pipeline.py lines 151, 196 and 377-381).
C13_WrittenColumnsFitTables ==
    /\ TableCols["aeolus_drug_outcome_lookup"] =
          <<"rxcui", "drug_name", "outcome_concept_id", "outcome_text",
            "meddra_code", "case_count", "prr", "ror">>
    /\ TableCols["rxcui_to_ingredient_map"] = <<"rxcui", "ingredient_rxcui">>
    /\ TableCols["ddi_ref_unified"] =
          <<"pair_key", "drug1_norm", "drug2_norm", "unified_severity",
            "unified_mechanism_text", "sources_present", "ddi_confidence">>
    /\ \A f \in OutNames : files[f].exists => files[f].cols = TableCols[f]

(***************************************************************************)
(* Stage 2: the AEOLUS concept dictionary and outcome statistics -> the    *)
(* lookup (build_aeolus_lookup).  prr and meddra_code pass through and are *)
(* left out of the rows; ror is kept in whole units.                       *)
(***************************************************************************)
AEO_CASE_MIN == 20
AEO_ROR_MIN == 2

\* a cell pd.to_numeric(errors="coerce") could not read
NoNum == 0 - 1

\* str.upper() on the vocabulary names of the dictionary
Upper(v) ==
    CASE v = "RxNorm" -> "RXNORM" [] v = "MedDRA" -> "MEDDRA" [] OTHER -> v

RECURSIVE ToNum(_)
ToNum(s) ==
    IF s = <<>> THEN 0
    ELSE 10 * ToNum(SubSeq(s, 1, Len(s) - 1))
         + (CASE s[Len(s)] = "1" -> 1 [] s[Len(s)] = "2" -> 2)

\* pd.to_numeric(errors="coerce") on a code: its number, or missing
ToNumeric(s) ==
    IF s # <<>> /\ \A i \in 1..Len(s) : IsDigit(s[i]) THEN ToNum(s) ELSE NoNum

\* line 143: inner join on drug_concept_id, statistics order kept
JoinRxn(st, hits) ==
    [i \in 1..Len(hits) |->
        st @@ [drug_name |-> hits[i].drug_name, rxcui |-> hits[i].rxcui]]
InnerRxn(stats, rxn) ==
    Concat([k \in 1..Len(stats) |->
              JoinRxn(stats[k],
                      Pick(rxn, SelectIdx(Len(rxn),
                               {i \in 1..Len(rxn) :
                                   /\ stats[k].drug_concept_id # NoNum
                                   /\ rxn[i].drug_concept_id = stats[k].drug_concept_id})))])

\* line 144: left join on outcome_concept_id
JoinMdr(r, hits) ==
    IF hits = <<>> THEN <<r @@ [outcome_text |-> NoText]>>
    ELSE [i \in 1..Len(hits) |-> r @@ [outcome_text |-> hits[i].outcome_text]]
LeftMdr(rows, mdr) ==
    Concat([k \in 1..Len(rows) |->
              JoinMdr(rows[k],
                      Pick(mdr, SelectIdx(Len(mdr),
                               {i \in 1..Len(mdr) :
                                   /\ rows[k].outcome_concept_id # NoNum
                                   /\ mdr[i].outcome_concept_id = rows[k].outcome_concept_id})))])

\* line 149: the query; a comparison with a missing number is false
PassesRorOnly(r) == r.ror # NoNum /\ r.ror >= AEO_ROR_MIN
Passes(r) ==
    /\ r.case_count # NoNum /\ r.case_count >= AEO_CASE_MIN
    /\ r.ror # NoNum /\ r.ror >= AEO_ROR_MIN

\* lines 147-149: dropna on rxcui, then the query
Filtered(rows) ==
    Pick(rows, SelectIdx(Len(rows),
                         {i \in 1..Len(rows) : rows[i].rxcui # NoNum /\ Passes(rows[i])}))

\* lines 150-152: rxcui ascending, ror descending; the columns kept
Sorted(rows) ==
    StableSort([i \in 1..Len(rows) |->
                   Project(rows[i], <<"rxcui", "drug_name", "outcome_concept_id",
                                      "outcome_text", "case_count", "ror">>)],
               [i \in 1..Len(rows) |-> [j \in 1..Len(rows) |->
                   \/ rows[i].rxcui < rows[j].rxcui
                   \/ /\ rows[i].rxcui = rows[j].rxcui
                      /\ rows[i].ror > rows[j].ror]])

\* the frame aeolus_by_rxcui of build_aeolus_lookup: rxn is the RxNorm part
\* of the dictionary (lines 120-124), mdr the MedDRA part (lines 126-131)
BuildLookup(concept, stats) ==
    LET rxn == Pick([i \in 1..Len(concept) |->
                        [drug_concept_id |-> concept[i].concept_id,
                         drug_name |-> concept[i].concept_name,
                         rxcui |-> ToNumeric(concept[i].concept_code)]],
                    SelectIdx(Len(concept),
                        {i \in 1..Len(concept) : Upper(concept[i].vocabulary_id) = "RXNORM"}))
        mdr == Pick([i \in 1..Len(concept) |->
                        [outcome_concept_id |-> concept[i].concept_id,
                         outcome_text |-> concept[i].concept_name]],
                    SelectIdx(Len(concept),
                        {i \in 1..Len(concept) : Upper(concept[i].vocabulary_id) = "MEDDRA"}))
    IN  Sorted(Filtered(LeftMdr(InnerRxn(stats, rxn), mdr)))

(* Dictionaries and statistic rows the model draws from. *)
ConceptRow(id, name, voc, code) ==
    [concept_id |-> id, concept_name |-> name, vocabulary_id |-> voc,
     concept_code |-> code]
Dictionaries ==
    {<<ConceptRow(10, <<"a">>, "RxNorm", <<"1">>),
       ConceptRow(11, <<"b">>, "RXNORM", <<"x">>),
       ConceptRow(12, <<"b">>, "SNOMED", <<"2">>),
       ConceptRow(13, <<"b">>, "RxNorm", <<"1", "2">>),
       ConceptRow(20, <<"y">>, "MedDRA", <<"2">>)>>,
     <<ConceptRow(20, <<"x">>, "MEDDRA", <<"1">>),
       ConceptRow(13, <<"a">>, "RXNORM", <<"2">>)>>}

StatRow(d, o, c, r) ==
    [drug_concept_id |-> d, outcome_concept_id |-> o, case_count |-> c, ror |-> r]

InitLookup ==
    /\ pc = "aeolus_ready"
    /\ err = "none"
    /\ ddinter = <<>> /\ cresc_pos = <<>> /\ mendeley = <<>> /\ ddi_ref = <<>>
    /\ inp = NoInput
    /\ risk_ann = <<>>
    /\ files = NoFiles
    /\ topk = [cols |-> <<>>, rows |-> <<>>]
    /\ enriched = <<>>
    /\ ddi_ref_unified = <<>>
    /\ collapsed = <<>>
    /\ cache_file = [exists |-> FALSE, rows |-> <<>>]
    /\ run = NoRun
    /\ loaded = NoLoad
    /\ aeolus_lookup = <<>>
    /\ named = NoName
    /\ \E dict \in Dictionaries :
         \E n \in 0..MaxStats :
           \E st \in [1..n -> {StatRow(10, 20, 20, 2), StatRow(10, 21, 19, 3),
                               StatRow(10, 20, 25, 1), StatRow(11, 20, 30, 3),
                               StatRow(12, 20, 30, 3), StatRow(13, 20, 21, 3),
                               StatRow(13, 20, NoNum, 3), StatRow(13, NoNum, 20, NoNum),
                               StatRow(NoNum, 20, 30, 3)}] :
              raw = [NoRaw EXCEPT !.concept = dict, !.stats = st]

build_aeolus_lookup ==
    /\ pc = "aeolus_ready"
    /\ aeolus_lookup' = BuildLookup(raw.concept, raw.stats)
    /\ pc' = "aeolus_done"
    /\ UNCHANGED <<named, raw, err, ddinter, cresc_pos, mendeley, ddi_ref, topk, enriched,
                   ddi_ref_unified, collapsed, cache_file, run, inp, risk_ann,
                   files, loaded>>

SpecLookup == InitLookup /\ [][build_aeolus_lookup]_vars

(***************************************************************************)
(* Claims about the lookup (SpecLookup).                                   *)
(***************************************************************************)
\* the statistic row s names the drug concept c of the RxNorm part, and the
\* code of c reads as a number
Resolves(s, c) ==
    /\ Upper(c.vocabulary_id) = "RXNORM"
    /\ s.drug_concept_id # NoNum
    /\ c.concept_id = s.drug_concept_id
    /\ ToNumeric(c.concept_code) # NoNum

\* the lookup row r is the statistic row s with the drug of c
RowFrom(r, s, c) ==
    /\ r.rxcui = ToNumeric(c.concept_code)
    /\ r.drug_name = c.concept_name
    /\ r.outcome_concept_id = s.outcome_concept_id
    /\ r.case_count = s.case_count
    /\ r.ror = s.ror

\* C17: every lookup row has case_count >= 20 and ror >= 2.0, both present,
\* and is a statistic row whose drug concept resolves in the RxNorm part of
\* the dictionary to a code that reads as a number; every statistic row that
\* passes the two thresholds and resolves is in the lookup.
C17_LookupFilterSoundAndComplete ==
    pc = "aeolus_done" =>
        /\ \A i \in 1..Len(aeolus_lookup) :
              /\ aeolus_lookup[i].case_count # NoNum
              /\ aeolus_lookup[i].case_count >= AEO_CASE_MIN
              /\ aeolus_lookup[i].ror # NoNum
              /\ aeolus_lookup[i].ror >= AEO_ROR_MIN
              /\ \E s \in Range(raw.stats) : \E c \in Range(raw.concept) :
                    Resolves(s, c) /\ RowFrom(aeolus_lookup[i], s, c)
        /\ \A s \in Range(raw.stats) : \A c \in Range(raw.concept) :
              (/\ Resolves(s, c)
               /\ s.case_count # NoNum /\ s.case_count >= AEO_CASE_MIN
               /\ s.ror # NoNum /\ s.ror >= AEO_ROR_MIN)
                  => \E i \in 1..Len(aeolus_lookup) : RowFrom(aeolus_lookup[i], s, c)

\* a row at both thresholds is in the lookup, a row one case short and a row
\* without case_count are not
C17_Witness ==
    /\ pc = "aeolus_done"
    /\ StatRow(10, 20, 20, 2) \in Range(raw.stats)
    /\ \E s \in Range(raw.stats) : s.case_count \in {19, NoNum} /\ s.ror = 3
    /\ Len(aeolus_lookup) = 1
    /\ aeolus_lookup[1].case_count = 20 /\ aeolus_lookup[1].ror = 2
    /\ aeolus_lookup[1].rxcui = 1

(***************************************************************************)
(* normalize_name on its own: a name, missing or any text over a small     *)
(* alphabet, normalised and the result normalised again.                   *)
(***************************************************************************)

InitNorm ==
    /\ pc = "names"
    /\ err = "none"
    /\ ddinter = <<>> /\ cresc_pos = <<>> /\ mendeley = <<>> /\ ddi_ref = <<>>
    /\ inp = NoInput
    /\ risk_ann = <<>>
    /\ files = NoFiles
    /\ topk = [cols |-> <<>>, rows |-> <<>>]
    /\ enriched = <<>>
    /\ ddi_ref_unified = <<>>
    /\ collapsed = <<>>
    /\ cache_file = [exists |-> FALSE, rows |-> <<>>]
    /\ run = NoRun
    /\ loaded = NoLoad
    /\ raw = NoRaw
    /\ aeolus_lookup = <<>>
    /\ \E x \in {NoText} \cup UNION {[1..n -> {"A", "b", "1", " ", "-", "[", "]", "."}] :
                                        n \in 0..MaxLen} :
          named = [x |-> x, out |-> <<>>]

\* one more call: on the name first, then on what the last call returned
normalize ==
    /\ pc = "names"
    /\ Len(named.out) < MaxCalls
    /\ named' = [named EXCEPT !.out =
                    Append(@, normalize_name(IF @ = <<>> THEN named.x ELSE @[Len(@)]))]
    /\ UNCHANGED <<pc, err, ddinter, cresc_pos, mendeley, ddi_ref, topk, enriched,
                   ddi_ref_unified, collapsed, cache_file, run, inp, risk_ann,
                   files, loaded, raw, aeolus_lookup>>

SpecNorm == InitNorm /\ [][normalize]_vars

(***************************************************************************)
(* Claims about normalize_name (SpecNorm).                                 *)
(***************************************************************************)
\* lowercase letters, digits, '-', '+' and single inner spaces only
CleanName(s) ==
    /\ \A i \in 1..Len(s) : s[i] \in {"a", "b", "1", "-", "+", " "}
    /\ s # <<>> => (s[1] # " " /\ s[Len(s)] # " ")
    /\ \A i \in 1..(Len(s) - 1) : ~(s[i] = " " /\ s[i + 1] = " ")

\* C18: the result of normalize_name has only lowercase letters, digits,
\* single spaces, '-' and '+' and no space at either end; normalising it again
\* gives it back; a missing name gives the empty string.
C18_NormalizeIdempotentAndClean ==
    /\ \A k \in 1..Len(named.out) : CleanName(named.out[k])
    /\ \A k \in 2..Len(named.out) : named.out[k] = named.out[k - 1]
    /\ (named.x = NoText /\ named.out # <<>>) => named.out[1] = <<>>

\* a name with a bracket inside a bracket and one left open, normalised twice
C18_Witness ==
    /\ named.x = <<"[", "[", "]", "A">>
    /\ Len(named.out) = 2
    /\ named.out[1] = <<"a">>
    /\ named.out[2] = <<"a">>

====
